---- MODULE Spec2Model ----
(***************************************************************************)
(* Destination registry and credential store of the log generator          *)
(* frontend (src/Frontend/log_generator_ui.py): list_destinations,         *)
(* create_destination and delete_destination over the destinations file    *)
(* and the keyring.                                                        *)
(*                                                                         *)
(* Strings whose characters the code inspects (urls) are sequences of      *)
(* one-character strings; tokens are sequences too, so that a url and a    *)
(* token can be compared.  Strings the code only compares for equality     *)
(* (names, types, protocols, ips) are TLA+ strings.  A destination id      *)
(* f"{dest_type}:{n}" is the pair <<dest_type, n>>.                        *)
(***************************************************************************)
EXTENDS Integers, Sequences, FiniteSets, TLC

VARIABLES
    file,        \* content of DESTINATIONS_FILE
    keyring,     \* the keyring entries of KEYRING_SERVICE: id -> token
    HAS_KEYRING, \* module constant set by the import at load time
    req,         \* the request handled last, with the outcomes of its I/O and
                 \* whether it matched a stored descriptor
    resp,        \* the response to it
    allOk,       \* history: every request so far was answered 2xx
    lastTok,     \* history: name -> token of the last 2xx HEC create
    repeated,    \* history: the last request repeated the create before it
    faults,      \* number of I/O calls that failed
    steps,       \* number of requests handled
    run,         \* one generate_logs request: its generator's position, its
                 \* socket and child process, what was sent and streamed
    thr,         \* the requests handled by concurrent threads of the server
    san,         \* one application of the sanitisation of the HEC path
    fmt,         \* one application of a text function of vibelog_ui.py
    pipe         \* the pipes between one generate_logs run and its child

registryVars ==
    <<file, keyring, HAS_KEYRING, req, resp, allOk, lastTok, repeated, faults, steps>>

vars ==
    <<file, keyring, HAS_KEYRING, req, resp, allOk, lastTok, repeated, faults, steps,
      run, thr, san, fmt, pipe>>

\* no generate_logs request, no concurrent request, no sanitisation under way
RunIdle == [pc |-> "idle"]
NoThreads == <<>>
SanIdle == [pc |-> "idle"]
FmtIdle == [pc |-> "idle"]
PipeIdle == [pc |-> "idle"]

\* Number of requests a behaviour handles.
MaxSteps == 4

\* Number of I/O calls (keyring, file) that fail in a behaviour.
MaxFaults == 1

\* Number of trailing slashes put on the urls of UrlInputs.
MaxSlashes == 2

\* Number of requests a behaviour of SpecUrl handles.
MaxUrlSteps == 2

\* Length of the lines given to the sanitisation in SpecSanitize.
MaxSanLen == 3

\* Number of lines the child process of a generate_logs run writes.
MaxLines == 2

\* Length of the texts given to detect_log_format in SpecDetect.
MaxTextLen == 6

\* Number of pieces the texts given to clean_json_logs are made of.
MaxChunks == 5

\* Number of lines of the texts given to clean_raw_logs.
MaxRawLines == 3

\* Number of writes the child of a run makes before it exits.
MaxChildWrites == 4

\* Number of writes an operating-system pipe holds before a write blocks.
PipeCapacity == 2

\* Number of requests a behaviour of SpecSyslog handles.
MaxSyslogSteps == 2

-----------------------------------------------------------------------------
(* Values *)

None == "None"

Names == {"prod", "d1"}
NoName == ""

\* the tokens submitted; none of them occurs in a submitted url
TokA == <<"a","b","c">>
TokB == <<"x","y">>
Tokens == {TokA, TokB}
NoToken == <<>>

Slash == "/"
SvcCollector ==
    <<"/","s","e","r","v","i","c","e","s","/","c","o","l","l","e","c","t","o","r">>
SlashEvent == <<"/","e","v","e","n","t">>
SlashRaw == <<"/","r","a","w">>
Host == <<"h">>
NoUrl == <<>>

\* urls submitted in the registry specification
Urls == {Host \o <<"/">>, Host \o SlashEvent}

DestTypes == {"hec", "syslog"}
Ips == {"10.0.0.5"}
NoIp == ""
Protocols == {"udp", "icmp"}

\* A JSON port is a number, a string or absent.
PNum(n) == [t |-> "num", n |-> n]
PStr(s) == [t |-> "str", s |-> s]
PNone == [t |-> "none"]
PortInputs == {PNum(0), PNum(514), PStr(<<"x">>)}

-----------------------------------------------------------------------------
(* Python dict helpers *)

Has(d, k) == k \in DOMAIN d
Get(d, k) == IF k \in DOMAIN d THEN d[k] ELSE None
SetField(d, k, v) == [x \in DOMAIN d \cup {k} |-> IF x = k THEN v ELSE d[x]]
Pop(d, k) == [x \in DOMAIN d \ {k} |-> d[x]]

-----------------------------------------------------------------------------
(* Python str helpers, on sequences of characters *)

RECURSIVE RStrip(_)
\* str.rstrip('/'): every trailing '/' is removed
RStrip(s) ==
    IF Len(s) > 0 /\ s[Len(s)] = Slash
    THEN RStrip(SubSeq(s, 1, Len(s) - 1))
    ELSE s

EndsWith(s, suf) ==
    /\ Len(s) >= Len(suf)
    /\ SubSeq(s, Len(s) - Len(suf) + 1, Len(s)) = suf

Contains(s, sub) ==
    \E i \in 1..(Len(s) - Len(sub) + 1) : SubSeq(s, i, i + Len(sub) - 1) = sub

\* str.upper() on the protocol strings of the model
Upper(s) ==
    CASE s = "udp" -> "UDP"
      [] s = "UDP" -> "UDP"
      [] s = "tcp" -> "TCP"
      [] s = "Tcp" -> "TCP"
      [] s = "TCP" -> "TCP"
      [] s = "icmp" -> "ICMP"
      [] OTHER -> s

DigitVal(c) ==
    CASE c = "0" -> 0 [] c = "1" -> 1 [] c = "2" -> 2 [] c = "3" -> 3
      [] c = "4" -> 4 [] c = "5" -> 5 [] c = "6" -> 6 [] c = "7" -> 7
      [] c = "8" -> 8 [] c = "9" -> 9 [] OTHER -> -1

RECURSIVE DigitsVal(_)
DigitsVal(s) ==
    IF Len(s) = 0 THEN 0
    ELSE 10 * DigitsVal(SubSeq(s, 1, Len(s) - 1)) + DigitVal(s[Len(s)])

\* bool(port): None, 0 and "" are falsy
Truthy(p) ==
    CASE p.t = "none" -> FALSE
      [] p.t = "num" -> p.n # 0
      [] p.t = "str" -> Len(p.s) > 0

\* int(port): a number is itself, a string of decimal digits is parsed,
\* any other string raises ValueError
IntOf(p) ==
    CASE p.t = "num" -> [ok |-> TRUE, v |-> p.n]
      [] p.t = "str" ->
           IF Len(p.s) > 0 /\ \A i \in 1..Len(p.s) : DigitVal(p.s[i]) >= 0
           THEN [ok |-> TRUE, v |-> DigitsVal(p.s)]
           ELSE [ok |-> FALSE, v |-> 0]
      [] OTHER -> [ok |-> FALSE, v |-> 0]

-----------------------------------------------------------------------------
(* The destinations file *)

SaveOutcomes == {"ok", "open_failed", "write_failed"}

AbsentFile == [kind |-> "absent", data |-> <<>>]

\* _load_destinations: [] when the file is absent or does not parse
Load(f) == IF f.kind = "json" THEN f.data ELSE <<>>

\* _save_destinations: open(..., 'w') truncates, json.dump writes; an
\* exception in open leaves the file as it was, one in the write leaves a
\* partial file.
SaveDestinations(f, items, outcome) ==
    CASE outcome = "ok" -> [kind |-> "json", data |-> items]
      [] outcome = "open_failed" -> f
      [] outcome = "write_failed" -> [kind |-> "partial", data |-> <<>>]

-----------------------------------------------------------------------------
(* The keyring: a set of entries, at most one per id *)

KrHas(kr, id) == \E e \in kr : e.id = id

\* keyring.get_password: None (modelled NoToken) when there is no entry
KrGet(kr, id) ==
    IF KrHas(kr, id) THEN (CHOOSE e \in kr : e.id = id).token ELSE NoToken

\* keyring.set_password: stores, or raises and stores nothing
SetPassword(kr, id, token, ok) ==
    IF ok THEN {e \in kr : e.id # id} \cup {[id |-> id, token |-> token]} ELSE kr

\* DeletePassword that removes nothing
DeletePassword_noop(kr, id, ok) == kr

\* keyring.delete_password: removes, or raises and removes nothing
DeletePassword(kr, id, ok) ==
    IF ok THEN {e \in kr : e.id # id} ELSE kr

-----------------------------------------------------------------------------
(* list_destinations *)

\* Redact with the redaction left out
Redact_whole(d) == d

\* the redacted copy of one descriptor
Redact(d) ==
    LET base == [k \in {"id", "name", "type"} |-> Get(d, k)]
    IN  IF Get(d, "type") = "hec"
        THEN SetField(base, "url", Get(d, "url"))
        ELSE IF Get(d, "type") = "syslog"
        THEN SetField(SetField(SetField(base, "ip", Get(d, "ip")),
                               "port", Get(d, "port")),
                      "protocol", Get(d, "protocol"))
        ELSE base

ListResponse(items) ==
    [status |-> 200,
     body |-> [destinations |-> [i \in 1..Len(items) |-> Redact(items[i])]]]

-----------------------------------------------------------------------------
(* create_destination *)

ErrorResponse(status, msg) == [status |-> status, body |-> [error |-> msg]]

\* NormalizeBase without the test for a trailing '/raw'
NormalizeBase_noraw(url) ==
    LET base == RStrip(url)
    IN  IF ~(EndsWith(base, SlashEvent) \/ Contains(base, SvcCollector))
        THEN base \o SvcCollector
        ELSE base

\* the url normalisation of the HEC branch
NormalizeBase(url) ==
    LET base == RStrip(url)
    IN  IF ~(EndsWith(base, SlashEvent) \/ EndsWith(base, SlashRaw)
             \/ Contains(base, SvcCollector))
        THEN base \o SvcCollector
        ELSE base

\* Validate without the test of the protocol
Validate_anyproto(p) ==
    IF p.type = "hec"
    THEN IF p.name = NoName \/ p.url = NoUrl \/ p.token = NoToken
         THEN "name, url and token are required"
         ELSE "ok"
    ELSE IF p.type = "syslog"
    THEN IF p.name = NoName \/ p.ip = NoIp \/ ~Truthy(p.port)
         THEN "name, ip, port, protocol (UDP/TCP) are required"
         ELSE "ok"
    ELSE "Unsupported destination type"

\* the validation of the payload: "ok" or the 400 message
Validate(p) ==
    IF p.type = "hec"
    THEN IF p.name = NoName \/ p.url = NoUrl \/ p.token = NoToken
         THEN "name, url and token are required"
         ELSE "ok"
    ELSE IF p.type = "syslog"
    THEN IF \/ p.name = NoName
            \/ p.ip = NoIp
            \/ ~Truthy(p.port)
            \/ Upper(p.protocol) \notin {"UDP", "TCP"}
         THEN "name, ip, port, protocol (UDP/TCP) are required"
         ELSE "ok"
    ELSE "Unsupported destination type"

\* FindExisting that never finds the entry
FindExisting_none(items, name, dest_type) == 0

\* next(d for d in items if name and type match): its index, 0 for None
FindExisting(items, name, dest_type) ==
    LET hits == {i \in 1..Len(items) :
                    /\ Has(items[i], "name") /\ items[i].name = name
                    /\ Has(items[i], "type") /\ items[i].type = dest_type}
    IN  IF hits = {} THEN 0 ELSE CHOOSE i \in hits : \A j \in hits : i <= j

\* NewId that numbers from the length of the list, not from one past it
NewId_len(dest_type, items) == <<dest_type, Len(items)>>

\* the id of a new entry
NewId(dest_type, items) == <<dest_type, Len(items) + 1>>

\* NewEntry that keeps the token in the HEC entry
NewEntry_plain(dest_id, p, base, port) ==
    IF p.type = "hec"
    THEN [id |-> dest_id, type |-> p.type, name |-> p.name, url |-> base,
          token |-> p.token]
    ELSE [id |-> dest_id, type |-> p.type, name |-> p.name, ip |-> p.ip,
          port |-> port, protocol |-> Upper(p.protocol)]

\* the entry of a new destination; port is int(port) of a syslog payload
NewEntry(dest_id, p, base, port) ==
    IF p.type = "hec"
    THEN [id |-> dest_id, type |-> p.type, name |-> p.name, url |-> base]
    ELSE [id |-> dest_id, type |-> p.type, name |-> p.name, ip |-> p.ip,
          port |-> port, protocol |-> Upper(p.protocol)]

\* UpdateEntry that stores the protocol as submitted, not in upper case
UpdateEntry_rawproto(existing, p, base, port) ==
    IF p.type = "hec"
    THEN Pop(SetField(existing, "url", base), "token")
    ELSE SetField(SetField(SetField(existing, "ip", p.ip), "port", port),
                  "protocol", p.protocol)

\* the fields an upsert writes into the existing entry
UpdateEntry(existing, p, base, port) ==
    IF p.type = "hec"
    THEN Pop(SetField(existing, "url", base), "token")
    ELSE SetField(SetField(SetField(existing, "ip", p.ip), "port", port),
                  "protocol", Upper(p.protocol))

\* StoreFailed that lets the handler go on to the save
StoreFailed_never(hasKeyring, hasId, setOk) == FALSE

\* whether the token could not be secured: no keyring module, no id to store
\* it under, or set_password raised
StoreFailed(hasKeyring, hasId, setOk) == ~hasKeyring \/ ~hasId \/ ~setOk

\* the 500 message of a token that could not be secured
StoreError(hasKeyring, hasId) ==
    IF ~hasKeyring \/ ~hasId
    THEN "Secure storage unavailable. Unable to save token. Please contact support."
    ELSE "Failed to save token securely. Please contact support."

\* the final return: base is a local bound in the HEC branch only, so the
\* syslog branch raises UnboundLocalError, which Flask answers with 500
CreatedResponse(dest_id, p, base) ==
    IF base.bound
    THEN [status |-> 201,
          body |-> [id |-> dest_id, name |-> p.name, type |-> p.type,
                    url |-> base.v]]
    ELSE ErrorResponse(500, "Internal Server Error")

\* The handler up to the save: the response if it returns before saving,
\* the list to save otherwise, and the keyring it leaves.
CreateOutcome(items, kr, hasKeyring, p, setOk) ==
    LET v == Validate(p)
        base == IF p.type = "hec"
                THEN [bound |-> TRUE, v |-> NormalizeBase(p.url)]
                ELSE [bound |-> FALSE]
        idx == FindExisting(items, p.name, p.type)
        hasId == IF idx > 0 THEN Has(items[idx], "id") ELSE TRUE
        dest_id == IF idx > 0 THEN Get(items[idx], "id") ELSE NewId(p.type, items)
        port == IntOf(p.port)
        stop(r, k) == [save |-> FALSE, resp |-> r, items |-> items,
                       keyring |-> k, dest_id |-> dest_id, base |-> base]
    IN  IF v # "ok" THEN stop(ErrorResponse(400, v), kr)
        ELSE IF p.type = "hec"
        THEN LET called == hasKeyring /\ hasId
                 kr2 == IF called THEN SetPassword(kr, dest_id, p.token, setOk) ELSE kr
             IN  IF StoreFailed(hasKeyring, hasId, setOk)
                 THEN stop(ErrorResponse(500, StoreError(hasKeyring, hasId)), kr2)
                 ELSE [save |-> TRUE, resp |-> CreatedResponse(dest_id, p, base),
                       items |-> IF idx > 0
                                 THEN [items EXCEPT ![idx] =
                                          UpdateEntry(items[idx], p, base.v, 0)]
                                 ELSE Append(items, NewEntry(dest_id, p, base.v, 0)),
                       keyring |-> kr2, dest_id |-> dest_id, base |-> base]
        ELSE IF ~port.ok
        THEN stop(ErrorResponse(500, "Internal Server Error"), kr)
        ELSE [save |-> TRUE, resp |-> CreatedResponse(dest_id, p, base),
              items |-> IF idx > 0
                        THEN [items EXCEPT ![idx] =
                                 UpdateEntry(items[idx], p, NoUrl, port.v)]
                        ELSE Append(items, NewEntry(dest_id, p, NoUrl, port.v)),
              keyring |-> kr, dest_id |-> dest_id, base |-> base]

-----------------------------------------------------------------------------
(* delete_destination *)

\* DeleteFilter with the comparison inverted: keeps the entries of dest_id
DeleteFilter_inverted(items, dest_id) ==
    LET Same(d) == Has(d, "id") /\ d.id = dest_id
    IN  SelectSeq(items, Same)

\* new_items = [d for d in items if d.get('id') != dest_id]
RECURSIVE DeleteFilter(_, _)
DeleteFilter(items, dest_id) ==
    IF Len(items) = 0 THEN <<>>
    ELSE LET rest == DeleteFilter(Tail(items), dest_id)
         IN  IF Has(Head(items), "id") /\ Head(items).id = dest_id
             THEN rest
             ELSE <<Head(items)>> \o rest

DeleteResponse(saved) ==
    IF saved THEN [status |-> 204, body |-> [empty |-> TRUE]]
    ELSE ErrorResponse(500, "Failed to delete destination")

-----------------------------------------------------------------------------
(* Requests *)

Payload(t, n, u, k, ip, port, proto) ==
    [type |-> t, name |-> n, url |-> u, token |-> k, ip |-> ip, port |-> port,
     protocol |-> proto]

\* Valid payloads: every url and token for one name, one payload for the
\* other name; and one payload for each way the validation or the conversion
\* of the port can fail.
HecPayloads ==
    {Payload("hec", "prod", u, k, NoIp, PNone, "") : u \in Urls, k \in Tokens}
    \cup {Payload("hec", "d1", Host \o <<"/">>, TokA, NoIp, PNone, "")}
    \cup {Payload("hec", "prod", Host, NoToken, NoIp, PNone, "")}

SyslogPayloads ==
    {Payload("syslog", n, NoUrl, NoToken, "10.0.0.5", PNum(514), "udp") : n \in Names}
    \cup {Payload("syslog", "prod", NoUrl, NoToken, "10.0.0.5", port, "udp") :
            port \in PortInputs}
    \cup {Payload("syslog", "prod", NoUrl, NoToken, "10.0.0.5", PNum(514), proto) :
            proto \in Protocols}

OtherPayloads == {Payload("ftp", "prod", NoUrl, NoToken, NoIp, PNone, "")}

Payloads == HecPayloads \cup SyslogPayloads \cup OtherPayloads

\* ids a delete request may name
IdInputs == {<<"hec", n>> : n \in 1..(Cardinality(Names) + 1)} \cup {<<"syslog", 1>>}

Is2xx(r) == r.status \in 200..299

-----------------------------------------------------------------------------
(* Actions *)

Init ==
    /\ file = AbsentFile
    /\ keyring = {}
    /\ HAS_KEYRING \in BOOLEAN
    /\ req = [op |-> "none"]
    /\ resp = [status |-> 0]
    /\ allOk = TRUE
    /\ lastTok = [n \in Names |-> NoToken]
    /\ repeated = FALSE
    /\ faults = 0
    /\ steps = 0
    /\ run = RunIdle
    /\ thr = NoThreads
    /\ san = SanIdle
    /\ fmt = FmtIdle
    /\ pipe = PipeIdle

\* GET /destinations
ListDestinations ==
    /\ steps < MaxSteps
    /\ req' = [op |-> "list"]
    /\ resp' = ListResponse(Load(file))
    /\ allOk' = allOk
    /\ repeated' = FALSE
    /\ steps' = steps + 1
    /\ UNCHANGED <<file, keyring, HAS_KEYRING, lastTok, faults>>
    /\ UNCHANGED <<run, thr, san, fmt, pipe>>

\* POST /destinations with a payload of P
Create(P) ==
    \E p \in P, setOk \in BOOLEAN, saveOut \in SaveOutcomes :
        LET out == CreateOutcome(Load(file), keyring, HAS_KEYRING, p, setOk)
            saved == out.save /\ saveOut = "ok"
            r == IF ~out.save THEN out.resp
                 ELSE IF ~saved THEN ErrorResponse(500, "Failed to save destination")
                 ELSE out.resp
        IN  \* the outcomes of calls the handler does not make are not inputs
            /\ setOk \/ (Validate(p) = "ok" /\ p.type = "hec" /\ HAS_KEYRING)
            /\ saveOut = "ok" \/ out.save
            /\ faults' = faults + (IF setOk /\ saveOut = "ok" THEN 0 ELSE 1)
            /\ faults' <= MaxFaults
            /\ req' = [op |-> "create", payload |-> p, setOk |-> setOk,
                       saveOut |-> saveOut,
                       hit |-> FindExisting(Load(file), p.name, p.type) > 0]
            /\ file' = IF out.save THEN SaveDestinations(file, out.items, saveOut)
                       ELSE file
            /\ keyring' = out.keyring
            /\ resp' = r
            /\ allOk' = (allOk /\ Is2xx(r))
            /\ repeated' = (req.op = "create" /\ req.payload = p)
            /\ lastTok' = IF Is2xx(r) /\ p.type = "hec"
                          THEN [lastTok EXCEPT ![p.name] = p.token]
                          ELSE lastTok
            /\ UNCHANGED HAS_KEYRING
            /\ UNCHANGED <<run, thr, san, fmt, pipe>>

CreateDestination ==
    /\ steps < MaxSteps
    /\ steps' = steps + 1
    /\ Create(Payloads)

\* DELETE /destinations/<dest_id>
DeleteDestination ==
    /\ steps < MaxSteps
    /\ \E dest_id \in IdInputs, delOk \in BOOLEAN, saveOut \in SaveOutcomes :
        LET items == Load(file)
            saved == saveOut = "ok"
            r == DeleteResponse(saved)
        IN  /\ delOk \/ HAS_KEYRING
            /\ faults' = faults + (IF delOk THEN 0 ELSE 1)
                                + (IF saveOut = "ok" THEN 0 ELSE 1)
            /\ faults' <= MaxFaults
            /\ req' = [op |-> "delete", dest_id |-> dest_id, delOk |-> delOk,
                       saveOut |-> saveOut,
                       hit |-> DeleteFilter(items, dest_id) # items]
            /\ keyring' = IF HAS_KEYRING
                          THEN DeletePassword(keyring, dest_id, delOk)
                          ELSE keyring
            /\ file' = SaveDestinations(file, DeleteFilter(items, dest_id), saveOut)
            /\ resp' = r
            /\ allOk' = (allOk /\ Is2xx(r))
    /\ repeated' = FALSE
    /\ steps' = steps + 1
    /\ UNCHANGED <<HAS_KEYRING, lastTok>>
    /\ UNCHANGED <<run, thr, san, fmt, pipe>>

Next == ListDestinations \/ CreateDestination \/ DeleteDestination

Spec == Init /\ [][Next]_vars

-----------------------------------------------------------------------------
(* The registry started on a file of an earlier version, whose descriptors  *)
(* carry the token in plaintext (the update path pops 'token') and may lack *)
(* an id (the update path tests existing.get('id')).                        *)

LegacyHec ==
    [id |-> <<"hec", 1>>, type |-> "hec", name |-> "prod",
     url |-> Host \o SvcCollector, token |-> TokA]
LegacyNoId ==
    [type |-> "hec", name |-> "d1", url |-> Host \o SlashEvent, token |-> TokB]
LegacySyslog ==
    [id |-> <<"syslog", 2>>, type |-> "syslog", name |-> "d1", ip |-> "10.0.0.5",
     port |-> 514, protocol |-> "UDP"]

LegacyFiles == {<<LegacyHec, LegacySyslog>>, <<LegacyNoId, LegacyHec>>}

InitLegacy ==
    /\ file \in {[kind |-> "json", data |-> items] : items \in LegacyFiles}
    /\ keyring = {}
    /\ HAS_KEYRING \in BOOLEAN
    /\ req = [op |-> "none"]
    /\ resp = [status |-> 0]
    /\ allOk = TRUE
    /\ lastTok = [n \in Names |-> NoToken]
    /\ repeated = FALSE
    /\ faults = 0
    /\ steps = 0
    /\ run = RunIdle
    /\ thr = NoThreads
    /\ san = SanIdle
    /\ fmt = FmtIdle
    /\ pipe = PipeIdle

SpecLegacy == InitLegacy /\ [][Next]_vars

-----------------------------------------------------------------------------
(* HEC creates over a wide set of urls *)

Slashes(k) == [i \in 1..k |-> Slash]

UrlMiddles ==
    { <<>>, SlashEvent, SlashRaw, SvcCollector,
      SlashEvent \o <<"s">>, <<"/", "x">> \o Tail(SlashRaw),
      SlashRaw \o <<"/", "x">>, SvcCollector \o <<"s", "/", "x">>,
      SubSeq(SvcCollector, 1, 18) }

UrlInputs ==
    {Host \o mid \o Slashes(k) : mid \in UrlMiddles, k \in 0..MaxSlashes}
    \cup {Slashes(k) : k \in 1..MaxSlashes}
    \cup {SlashEvent \o Slashes(k) : k \in 0..MaxSlashes}

UrlPayloads == {Payload("hec", "prod", u, TokA, NoIp, PNone, "") : u \in UrlInputs}

InitUrl ==
    /\ file = AbsentFile
    /\ keyring = {}
    /\ HAS_KEYRING = TRUE
    /\ req = [op |-> "none"]
    /\ resp = [status |-> 0]
    /\ allOk = TRUE
    /\ lastTok = [n \in Names |-> NoToken]
    /\ repeated = FALSE
    /\ faults = 0
    /\ steps = 0
    /\ run = RunIdle
    /\ thr = NoThreads
    /\ san = SanIdle
    /\ fmt = FmtIdle
    /\ pipe = PipeIdle

CreateHecUrl ==
    /\ steps < MaxUrlSteps
    /\ steps' = steps + 1
    /\ Create(UrlPayloads)

NextUrl == CreateHecUrl

SpecUrl == InitUrl /\ [][NextUrl]_vars

-----------------------------------------------------------------------------
(* Syslog creates over a wide set of ports and protocols *)

SyslogProtocols == {"udp", "UDP", "tcp", "Tcp", "TCP", "icmp", ""}

SyslogPorts ==
    {PNone, PNum(0), PNum(514), PNum(70000), PStr(<<"5">>), PStr(<<"0">>),
     PStr(<<"x">>)}

SyslogInputs ==
    {Payload("syslog", n, NoUrl, NoToken, ip, port, proto) :
        n \in {"prod", NoName}, ip \in Ips \cup {NoIp}, port \in SyslogPorts,
        proto \in SyslogProtocols}

CreateSyslog ==
    /\ steps < MaxSyslogSteps
    /\ steps' = steps + 1
    /\ Create(SyslogInputs)

NextSyslog == CreateSyslog

SpecSyslog == Init /\ [][NextSyslog]_vars

-----------------------------------------------------------------------------
(* Sanitisation of the HEC path (generate_logs, lines 538-547 and 573-576) *)

Stars == <<"*","*","*">>
HecUrlMark == <<"<","h","e","c","_","u","r","l",">">>

\* s.replace('', new): new before every character and at the end
RECURSIVE ReplaceEmpty(_, _)
ReplaceEmpty(s, new) ==
    IF s = <<>> THEN new
    ELSE new \o <<Head(s)>> \o ReplaceEmpty(Tail(s), new)

\* s.replace(old, new): the occurrences of old found from the left, none
\* overlapping another, are replaced by new
RECURSIVE Replace(_, _, _)
Replace(s, old, new) ==
    IF old = <<>> THEN ReplaceEmpty(s, new)
    ELSE IF Len(s) < Len(old) THEN s
    ELSE IF SubSeq(s, 1, Len(old)) = old
         THEN new \o Replace(SubSeq(s, Len(old) + 1, Len(s)), old, new)
         ELSE <<Head(s)>> \o Replace(Tail(s), old, new)

\* _normalize_hec_url
NormalizeHecUrl(u) ==
    IF u = <<>> THEN u
    ELSE LET base == RStrip(u)
         IN  IF EndsWith(base, SlashEvent) \/ EndsWith(base, SlashRaw) THEN base
             ELSE IF Contains(base, SvcCollector) THEN base
             ELSE base \o SvcCollector

\* the three replacements applied to a line of the sender's output
Sanitize(line, hec_token, hec_url, normalized_hec_url) ==
    Replace(Replace(Replace(line, hec_token, Stars), hec_url, HecUrlMark),
            normalized_hec_url, HecUrlMark)

SanChars == {"*", "h", "k"}

SanLines == UNION {[1..n -> SanChars] : n \in 0..MaxSanLen}

SanTokens == {<<"k">>, <<"*">>, <<"h">>, <<"k","*">>, <<"k","k">>}

SanUrls == {<<"h">>, <<"h","k">>}

InitSanitize ==
    /\ file = AbsentFile
    /\ keyring = {}
    /\ HAS_KEYRING = TRUE
    /\ req = [op |-> "none"]
    /\ resp = [status |-> 0]
    /\ allOk = TRUE
    /\ lastTok = [n \in Names |-> NoToken]
    /\ repeated = FALSE
    /\ faults = 0
    /\ steps = 0
    /\ run = RunIdle
    /\ thr = NoThreads
    /\ san \in {[pc |-> "in", line |-> l, token |-> k, url |-> u] :
                    l \in SanLines, k \in SanTokens, u \in SanUrls}
    /\ fmt = FmtIdle
    /\ pipe = PipeIdle

ApplySanitize ==
    /\ san.pc = "in"
    /\ san' = [pc |-> "out", line |-> san.line, token |-> san.token,
               url |-> san.url,
               out |-> Sanitize(san.line, san.token, san.url,
                                NormalizeHecUrl(san.url))]
    /\ UNCHANGED registryVars
    /\ UNCHANGED <<run, thr, fmt, pipe>>

NextSanitize == ApplySanitize

SpecSanitize == InitSanitize /\ [][NextSanitize]_vars

-----------------------------------------------------------------------------
(* generate_logs (lines 406-598).  The response is a generator: every      *)
(* action below but GenerateLogs and Disconnect is one resumption of it,   *)
(* from the yield it is suspended at to the next yield or to its end.      *)

NoId == <<>>

\* the whitespace str.strip() removes
Whitespace == {" ", "\n", "\t", "\r"}

\* Strip that removes nothing
Strip_none(s) == s

RECURSIVE LStripWs(_)
LStripWs(s) ==
    IF Len(s) > 0 /\ Head(s) \in Whitespace THEN LStripWs(Tail(s)) ELSE s

RECURSIVE RStripWs(_)
RStripWs(s) ==
    IF Len(s) > 0 /\ s[Len(s)] \in Whitespace
    THEN RStripWs(SubSeq(s, 1, Len(s) - 1))
    ELSE s

\* str.strip()
Strip(s) == LStripWs(RStripWs(s))

\* the registry and the keyring a run can find: two syslog destinations and
\* one HEC destination, as three creates leave them
RunItems ==
    << [id |-> <<"syslog", 1>>, type |-> "syslog", name |-> "prod",
        ip |-> "10.0.0.5", port |-> 514, protocol |-> "UDP"],
       [id |-> <<"syslog", 2>>, type |-> "syslog", name |-> "d1",
        ip |-> "10.0.0.5", port |-> 514, protocol |-> "TCP"],
       [id |-> <<"hec", 3>>, type |-> "hec", name |-> "prod",
        url |-> Host \o SlashEvent] >>

RunFiles ==
    {[kind |-> "json", data |-> RunItems],
     [kind |-> "json", data |-> <<LegacyNoId>>],
     AbsentFile}

RunKeyrings == {{[id |-> <<"hec", 3>>, token |-> TokA]}, {}}

\* the json body of a request
RunRequest(dest, script, ip, port, proto, product, uid, hid, sid) ==
    [destination |-> dest, script |-> script, ip |-> ip, port |-> port,
     protocol |-> proto, product |-> product, destination_id |-> uid,
     hec_destination_id |-> hid, syslog_destination_id |-> sid]

SyslogRequests ==
    {RunRequest("syslog", "gen.py", ip, port, proto, "", NoId, NoId, NoId) :
        ip \in {"10.0.0.5"}, port \in {PNum(514)}, proto \in {"udp", "tcp"}}
    \cup {RunRequest("syslog", "gen.py", "10.0.0.5", PNum(514), "icmp", "", NoId, NoId, NoId),
          RunRequest("syslog", "gen.py", NoIp, PNum(514), "udp", "", NoId, NoId, NoId),
          RunRequest("syslog", "gen.py", "10.0.0.5", PNone, "TCP", "", NoId, NoId, NoId),
          RunRequest("syslog", "gen.py", "10.0.0.5", PNum(0), "UDP", "", NoId, NoId, NoId),
          RunRequest("syslog", "none.py", "10.0.0.5", PNum(514), "udp", "", NoId, NoId, NoId)}
    \cup {RunRequest("syslog", "gen.py", NoIp, PNone, "", "", uid, NoId, sid) :
            uid \in {NoId, <<"syslog", 1>>, <<"syslog", 9>>, <<"hec", 3>>},
            sid \in {NoId, <<"syslog", 2>>}}

HecRequests ==
    {RunRequest("hec", "", NoIp, PNone, "", "p", uid, hid, NoId) :
        uid \in {NoId, <<"hec", 3>>, <<"hec", 9>>, <<"syslog", 1>>},
        hid \in {NoId, <<"hec", 3>>}}
    \cup {RunRequest("hec", "", NoIp, PNone, "", "", <<"hec", 3>>, NoId, NoId)}

OtherRequests ==
    {RunRequest("file", "gen.py", NoIp, PNone, "", "", NoId, NoId, NoId)}

RunRequests == SyslogRequests \cup HecRequests \cup OtherRequests

\* the lines a generator script writes, and the lines the HEC sender writes
RunLines ==
    {<<"a", "\n">>, <<" ", "b", " ", "c", " ", "\n">>, <<"\n">>}

HecLines ==
    {<<"o", "k", "\n">>, <<"t", "=">> \o TokA \o <<"\n">>,
     Host \o SlashEvent \o <<"\n">>}

\* what a child writes to its standard error: nothing, or a text
ErrTexts == {<<>>, <<"T", "r", "a", "c", "e">>, <<"n", "o", " ">> \o TokA}

\* the text of an exception
ExcTexts == {<<"b", "o", "o", "m">>, <<"e", " ">> \o TokA}

\* os.path.exists of the script, and of hec_sender.py
ScriptExists(script) == script = "gen.py"

\* the state of a request whose generator has not run yet
NewRun(q) ==
    [pc |-> "created", q |-> q, status |-> 200, sock |-> "none", proto |-> "",
     connected |-> FALSE, addr |-> <<NoIp, PNone>>, child |-> "none",
     rc |-> <<>>, produced |-> <<>>, calls |-> <<>>, stream |-> <<>>,
     dest |-> NoId, token |-> NoToken, url |-> NoUrl, nurl |-> NoUrl]

\* yield of one line; the generator is suspended at pc
Yield(r, tag, msg, text, pc) ==
    [r EXCEPT !.stream = Append(@, [tag |-> tag, msg |-> msg, text |-> text]),
              !.pc = pc]

\* Finally that ends the generator without the finally clause
Finally_skip(r) == [r EXCEPT !.pc = "done"]

\* the yield of the finally clause (line 594)
Finally(r) == Yield(r, "INFO", "complete", <<>>, "y_final")

\* next((d for d in dest_items if d.get('id') == id and d.get('type') == t), None)
FindDest(items, id, t) ==
    LET S == {i \in 1..Len(items) :
                /\ Has(items[i], "id") /\ items[i].id = id
                /\ Get(items[i], "type") = t}
    IN  IF S = {} THEN 0 ELSE CHOOSE i \in S : \A j \in S : i <= j

\* next((d for d in dest_items if d.get('type') == t), None)
FirstOfType(items, t) ==
    LET S == {i \in 1..Len(items) : Get(items[i], "type") = t}
    IN  IF S = {} THEN 0 ELSE CHOOSE i \in S : \A j \in S : i <= j

\* Transmit that adds the payload to the transmission before it
Transmit_merged(calls, call, data, ok) ==
    IF calls = <<>> THEN <<[call |-> call, data |-> data, ok |-> ok]>>
    ELSE [calls EXCEPT ![Len(calls)].data = @ \o data]

\* Transmit that makes no send call
Transmit_unsent(calls, call, data, ok) == calls

\* one sock.sendto or sock.sendall call, which returns or raises
Transmit(calls, call, data, ok) ==
    Append(calls, [call |-> call, data |-> data, ok |-> ok])

\* Terminate that sends no signal
Terminate_none(child) == child

\* process.terminate()
Terminate(child) == "terminated"

\* CloseSocket that leaves the socket open
CloseSocket_leak(sock) == sock

\* if sock: sock.close()
CloseSocket(sock) == IF sock = "open" THEN "closed" ELSE sock

\* lines 431-465: the syslog branch up to its first yield
SyslogBegin(r, items) ==
    LET q == r.q
        resolved == IF q.destination_id # NoId THEN q.destination_id
                    ELSE q.syslog_destination_id
        i == FindDest(items, resolved, "syslog")
        ip == IF resolved # NoId THEN Get(items[i], "ip") ELSE q.ip
        port == IF resolved # NoId
                THEN (IF Has(items[i], "port") THEN PNum(items[i].port) ELSE PNum(0))
                ELSE q.port
        proto == IF resolved # NoId
                 THEN Upper(IF Has(items[i], "protocol") THEN items[i].protocol ELSE "")
                 ELSE Upper(q.protocol)
    IN  IF resolved # NoId /\ i = 0
        THEN {Yield(r, "ERROR", "notfound", <<>>, "y_return")}
        ELSE IF ip \in {None, NoIp} \/ ~Truthy(port) \/ proto \notin {"UDP", "TCP"}
        THEN {Yield(r, "ERROR", "invalid", <<>>, "y_return")}
        ELSE LET r1 == [r EXCEPT !.proto = proto, !.addr = <<ip, port>>,
                                 !.dest = resolved]
                 r2 == [r1 EXCEPT !.sock = "open"]
             IN  \* socket.socket raises
                 {Yield(r1, "ERROR", "exc", e, "y_except") : e \in ExcTexts}
                 \cup
                 (IF proto = "UDP"
                  THEN {Yield(r2, "INFO", "start", <<>>, "y_start")}
                  ELSE {Yield([r2 EXCEPT !.connected = TRUE],
                              "INFO", "start", <<>>, "y_start")}
                       \cup {Yield(r2, "ERROR", "connect", e, "y_return") :
                                e \in ExcTexts})

\* lines 496-527: the HEC branch up to its first yield; getOk: get_password
\* returns
HecBegin(r, items, kr, hasKeyring, getOk) ==
    LET q == r.q
        resolved == IF q.destination_id # NoId THEN q.destination_id
                    ELSE q.hec_destination_id
        i1 == IF resolved # NoId THEN FindDest(items, resolved, "hec") ELSE 0
        i == IF i1 > 0 THEN i1 ELSE FirstOfType(items, "hec")
        hec_url == IF Has(items[i], "url") THEN items[i].url ELSE NoUrl
        hec_token == IF getOk THEN KrGet(kr, items[i].id) ELSE NoToken
    IN  IF q.product = ""
        THEN Yield(r, "ERROR", "noproduct", <<>>, "y_return")
        ELSE IF i = 0
        THEN Yield(r, "ERROR", "nohec", <<>>, "y_return")
        ELSE IF ~hasKeyring \/ ~Has(items[i], "id")
        THEN Yield(r, "ERROR", "nostore", <<>>, "y_return")
        ELSE IF hec_url = NoUrl \/ hec_token = NoToken
        THEN Yield(r, "ERROR", "incomplete", <<>>, "y_return")
        ELSE Yield([r EXCEPT !.dest = items[i].id, !.url = hec_url,
                             !.token = hec_token],
                   "INFO", "hstart", <<>>, "y_hstart")

\* process.wait(): the child is reaped and its exit code is in
\* process.returncode (rc, <<>> before); a child that was sent SIGTERM has
\* exited before the signal or was ended by it
Wait(r) ==
    {[r EXCEPT !.child = "reaped", !.rc = <<c>>] :
        c \in (IF r.child = "terminated" THEN {0, -15} ELSE {0, 1})}

\* AfterLoop that goes back into the loop after the block of standard error
AfterLoop_resume(r) ==
    {Finally([r EXCEPT !.child = "reaped", !.rc = <<0>>])}
    \cup {Yield(r, "ERROR", "stderr", e, "y_log") : e \in ErrTexts \ {<<>>}}

\* lines 490-494 and 594: after the loop of the syslog branch
AfterLoop(r) ==
    {Finally(w) : w \in Wait(r)}
    \cup {Yield(r, "ERROR", "stderr", e, "y_stderr") : e \in ErrTexts \ {<<>>}}

\* lines 475-494: the loop of the syslog branch, from the read of a line to
\* the next yield
SyslogRead(r) ==
    LET call == IF r.proto = "UDP" THEN "sendto" ELSE "sendall"
    IN  (IF Len(r.produced) < MaxLines
         THEN UNION {
                LET log_line == Strip(line)
                    r1 == [r EXCEPT !.produced = Append(@, line)]
                    data == log_line \o <<"\n">>
                IN  {Yield([r1 EXCEPT !.calls = Transmit(@, call, data, TRUE)],
                           "LOG", "log", log_line, "y_log")}
                    \cup
                    {Yield([r1 EXCEPT !.calls = Transmit(@, call, data, FALSE)],
                           "ERROR", "send", e, "y_senderr") : e \in ExcTexts}
                : line \in RunLines}
         ELSE {})
        \cup {Yield(r, "ERROR", "exc", e, "y_except") : e \in ExcTexts}
        \cup AfterLoop(r)

\* lines 579-586 and 594: after the loop of the HEC branch
HecAfterLoop(r) ==
    {Finally(w) : w \in Wait(r)}
    \cup {Yield(r, "ERROR", "hstderr", Sanitize(e, r.token, r.url, r.nurl),
                "y_stderr") : e \in ErrTexts \ {<<>>}}

\* lines 570-586: the loop of the HEC branch
HecRead(r) ==
    (IF Len(r.produced) < MaxLines
     THEN {Yield([r EXCEPT !.produced = Append(@, line)], "NONE", "out",
                 Sanitize(line, r.token, r.url, r.nurl), "y_hline") :
              line \in HecLines}
     ELSE {})
    \cup {Yield(r, "ERROR", "exc", e, "y_except") : e \in ExcTexts}
    \cup HecAfterLoop(r)

\* subprocess.Popen raises FileNotFoundError or another exception
SpawnFailed(r) ==
    {Yield(r, "ERROR", "fnf", <<>>, "y_except")}
    \cup {Yield(r, "ERROR", "exc", e, "y_except") : e \in ExcTexts}

InitRun ==
    /\ file \in RunFiles
    /\ keyring \in RunKeyrings
    /\ HAS_KEYRING \in BOOLEAN
    /\ req = [op |-> "none"]
    /\ resp = [status |-> 0]
    /\ allOk = TRUE
    /\ lastTok = [n \in Names |-> NoToken]
    /\ repeated = FALSE
    /\ faults = 0
    /\ steps = 0
    /\ run = RunIdle
    /\ thr = NoThreads
    /\ san = SanIdle
    /\ fmt = FmtIdle
    /\ pipe = PipeIdle

RunFrame == UNCHANGED registryVars /\ UNCHANGED <<thr, san, fmt, pipe>>

\* POST /generate-logs: lines 408-426 and 598
GenerateLogs ==
    /\ run.pc = "idle"
    /\ \E q \in RunRequests :
          run' = IF q.destination = "syslog" /\ ~ScriptExists(q.script)
                 THEN [NewRun(q) EXCEPT !.pc = "rejected", !.status = 400]
                 ELSE NewRun(q)
    /\ RunFrame

\* the first resumption: to the first yield
Begin ==
    /\ run.pc = "created"
    /\ IF run.q.destination = "syslog"
       THEN run' \in SyslogBegin(run, Load(file))
       ELSE IF run.q.destination = "hec"
       THEN \E getOk \in BOOLEAN :
               run' = HecBegin(run, Load(file), keyring, HAS_KEYRING, getOk)
       ELSE run' = Finally(run)
    /\ RunFrame

\* resumed after an ERROR line that is followed by return, or that was
\* yielded by an except clause: the finally clause yields
ReturnAfterError ==
    /\ run.pc \in {"y_return", "y_except"}
    /\ run' = Finally(run)
    /\ RunFrame

\* resumed after 'INFO: Starting log generation...': Popen, then the loop
Spawn ==
    /\ run.pc = "y_start"
    /\ run' \in SpawnFailed(run) \cup SyslogRead([run EXCEPT !.child = "running"])
    /\ RunFrame

\* resumed after a LOG line
NextLine ==
    /\ run.pc = "y_log"
    /\ run' \in SyslogRead(run)
    /\ RunFrame

\* resumed after 'ERROR: Failed to send log': terminate, break
AfterSendError ==
    /\ run.pc = "y_senderr"
    /\ run' \in AfterLoop([run EXCEPT !.child = Terminate(@)])
    /\ RunFrame

\* resumed after the ERROR line of the child's standard error: wait
AfterStderr ==
    /\ run.pc = "y_stderr"
    /\ run' \in {Finally(w) : w \in Wait(run)}
    /\ RunFrame

\* resumed after 'INFO: Starting HEC send...': lines 529-577
SpawnSender ==
    /\ run.pc = "y_hstart"
    /\ run' \in {Yield(run, "ERROR", "nosender", <<>>, "y_return")}
                \cup SpawnFailed([run EXCEPT !.nurl = NormalizeHecUrl(run.url)])
                \cup HecRead([run EXCEPT !.nurl = NormalizeHecUrl(run.url),
                                         !.child = "running"])
    /\ RunFrame

\* resumed after a line of the sender
NextSenderLine ==
    /\ run.pc = "y_hline"
    /\ run' \in HecRead(run)
    /\ RunFrame

\* resumed after 'INFO: Log generation complete.': lines 595-596, and the
\* generator ends
Finish ==
    /\ run.pc = "y_final"
    /\ run' = [run EXCEPT !.pc = "done", !.sock = CloseSocket(@)]
    /\ RunFrame

Suspended ==
    {"y_return", "y_except", "y_start", "y_log", "y_senderr", "y_stderr",
     "y_hstart", "y_hline", "y_final"}

\* the caller goes away and the server closes the generator where it is
\* suspended: GeneratorExit is raised at the yield, the finally clause
\* yields again instead of ending, and lines 595-596 are not reached
Disconnect ==
    /\ run.pc \in Suspended
    /\ run' = [run EXCEPT !.pc = "abandoned"]
    /\ RunFrame

NextRun ==
    \/ GenerateLogs \/ Begin \/ ReturnAfterError \/ Spawn \/ NextLine
    \/ AfterSendError \/ AfterStderr \/ SpawnSender \/ NextSenderLine
    \/ Finish \/ Disconnect

SpecRun == InitRun /\ [][NextRun]_vars

-----------------------------------------------------------------------------
(* run_scenario (lines 309-397): the request, then the resumptions of its  *)
(* generator.  The child's standard error goes to its standard output.     *)

ScenarioRequests ==
    {[destination |-> "scenario", scenario_id |-> sc, destination_id |-> id] :
        sc \in {"", "quick_scenario", "nope"},
        id \in {NoId, <<"hec", 3>>, <<"hec", 9>>, <<"syslog", 1>>}}

\* what a scenario script prints: it has the token and the url in its
\* environment
ScenarioLines ==
    {<<"o", "k", "\n">>, <<"t", "=">> \o TokA \o <<"\n">>,
     Host \o SlashEvent \o <<"\n">>}

\* os.path.exists of the script of a scenario
ScenarioExists(scenario_id) == scenario_id = "quick_scenario"

\* f"{rc}" for the exit codes of the model
CodeText(c) == IF c = 0 THEN <<"0">> ELSE IF c = 1 THEN <<"1">> ELSE <<"-", "1", "5">>

\* next((d for d in dest_items if d.get('id') == destination_id), None)
FindById(items, id) ==
    LET S == {i \in 1..Len(items) : Has(items[i], "id") /\ items[i].id = id}
    IN  IF S = {} THEN 0 ELSE CHOOSE i \in S : \A j \in S : i <= j

\* lines 311-339: the answer without a stream, or the state of the request
\* whose generator has not run yet
ScenarioRequest(q, items, kr, hasKeyring, getOk) ==
    LET i == FindById(items, q.destination_id)
        hec_url == IF Has(items[i], "url") THEN items[i].url ELSE NoUrl
        hec_token == IF hasKeyring /\ getOk THEN KrGet(kr, items[i].id)
                     ELSE NoToken
        refused(status) == [NewRun(q) EXCEPT !.pc = "rejected", !.status = status]
    IN  IF q.scenario_id = "" \/ q.destination_id = NoId THEN refused(400)
        ELSE IF i = 0 THEN refused(404)
        ELSE IF Get(items[i], "type") # "hec" THEN refused(400)
        ELSE IF hec_url = NoUrl \/ hec_token = NoToken THEN refused(400)
        ELSE [NewRun(q) EXCEPT !.pc = "s_created", !.dest = items[i].id,
                               !.url = hec_url, !.token = hec_token]

\* lines 376-395: the loop, the wait and the line of the exit code
ScenarioRead(r) ==
    (IF Len(r.produced) < MaxLines
     THEN {Yield([r EXCEPT !.produced = Append(@, line)], "NONE", "out", line,
                 "s_line") : line \in ScenarioLines}
     ELSE {})
    \cup {Yield(r, "ERROR", "failed", e, "s_last") : e \in ExcTexts}
    \cup {IF w.rc[1] = 0
          THEN Yield(w, "INFO", "scenario_complete", <<>>, "s_last")
          ELSE Yield(w, "ERROR", "exit", CodeText(w.rc[1]), "s_last") :
             w \in Wait(r)}

\* POST /scenarios/run
RunScenario ==
    /\ run.pc = "idle"
    /\ \E q \in ScenarioRequests, getOk \in BOOLEAN :
          run' = ScenarioRequest(q, Load(file), keyring, HAS_KEYRING, getOk)
    /\ RunFrame

\* the first resumption: line 343
ScenarioBegin ==
    /\ run.pc = "s_created"
    /\ run' = Yield(run, "INFO", "scenario_start", <<>>, "s_start")
    /\ RunFrame

\* lines 344-369: the script is looked up and the environment is prepared
ScenarioLocate ==
    /\ run.pc = "s_start"
    /\ run' = IF ~ScenarioExists(run.q.scenario_id)
              THEN Yield(run, "ERROR", "noscript", <<>>, "s_last")
              ELSE Yield([run EXCEPT !.nurl = RStrip(run.url)],
                         "INFO", "executing", <<>>, "s_exec")
    /\ RunFrame

\* lines 370-395: Popen, then the loop
ScenarioSpawn ==
    /\ run.pc = "s_exec"
    /\ run' \in {Yield(run, "ERROR", "failed", e, "s_last") : e \in ExcTexts}
                \cup ScenarioRead([run EXCEPT !.child = "running"])
    /\ RunFrame

\* resumed after a line of the script
ScenarioNextLine ==
    /\ run.pc = "s_line"
    /\ run' \in ScenarioRead(run)
    /\ RunFrame

\* resumed after its last line, the generator ends
ScenarioEnd ==
    /\ run.pc = "s_last"
    /\ run' = [run EXCEPT !.pc = "done"]
    /\ RunFrame

NextScenario ==
    \/ RunScenario \/ ScenarioBegin \/ ScenarioLocate \/ ScenarioSpawn
    \/ ScenarioNextLine \/ ScenarioEnd

SpecScenario == InitRun /\ [][NextScenario]_vars

-----------------------------------------------------------------------------
(* The text functions of src/event_generators/vibelog_ui.py, on texts that *)
(* are sequences of characters.                                            *)

Braces == {"{", "}"}

\* the position of the first brace of s after position i, or 0
NextBrace(s, i) ==
    LET S == {k \in (i + 1)..Len(s) : s[k] \in Braces}
    IN  IF S = {} THEN 0 ELSE CHOOSE k \in S : \A m \in S : k <= m

\* where a match of \{[^{}]*\} that starts at position i ends, or 0
FlatMatchEnd(s, i) ==
    IF s[i] # "{" THEN 0
    ELSE LET k == NextBrace(s, i)
         IN  IF k > 0 /\ s[k] = "}" THEN k ELSE 0

\* len(re.findall(r'\{[^{}]*\}', s)) from position i on: the matches are
\* taken from the left, each search starting after the match before
RECURSIVE CountFlat(_, _)
CountFlat(s, i) ==
    IF i > Len(s) THEN 0
    ELSE IF FlatMatchEnd(s, i) > 0
         THEN 1 + CountFlat(s, FlatMatchEnd(s, i) + 1)
         ELSE CountFlat(s, i + 1)

\* detect_log_format with a threshold of two matches
DetectLogFormat_two(output) ==
    IF CountFlat(output, 1) >= 2 THEN "JSON" ELSE "RAW"

\* detect_log_format
DetectLogFormat(output) ==
    IF CountFlat(output, 1) > 2 THEN "JSON" ELSE "RAW"

DetectChars == {"{", "}", "a"}

DetectTexts == UNION {[1..n -> DetectChars] : n \in 0..MaxTextLen}

\* every variable but fmt has its initial value
NoRequest ==
    /\ file = AbsentFile
    /\ keyring = {}
    /\ HAS_KEYRING = TRUE
    /\ req = [op |-> "none"]
    /\ resp = [status |-> 0]
    /\ allOk = TRUE
    /\ lastTok = [n \in Names |-> NoToken]
    /\ repeated = FALSE
    /\ faults = 0
    /\ steps = 0
    /\ run = RunIdle
    /\ thr = NoThreads
    /\ san = SanIdle
    /\ pipe = PipeIdle

FmtFrame == UNCHANGED registryVars /\ UNCHANGED <<run, thr, san, pipe>>

InitDetect ==
    /\ NoRequest
    /\ fmt \in {[pc |-> "in", text |-> t] : t \in DetectTexts}

DetectFormat ==
    /\ fmt.pc = "in"
    /\ fmt' = [pc |-> "detected", text |-> fmt.text,
               out |-> DetectLogFormat(fmt.text)]
    /\ FmtFrame

NextDetect == DetectFormat

SpecDetect == InitDetect /\ [][NextDetect]_vars

\* where a match of \{[^{}]*(?:\{[^{}]*\}[^{}]*)*\} goes on from position
\* cur, inside the outer braces: to the closing brace, over one inner pair
\* of braces after the other; 0 when there is no match
RECURSIVE NestedScan(_, _)
NestedScan(s, cur) ==
    LET k == NextBrace(s, cur)
    IN  IF k = 0 THEN 0
        ELSE IF s[k] = "}" THEN k
        ELSE LET k2 == NextBrace(s, k)
             IN  IF k2 > 0 /\ s[k2] = "}" THEN NestedScan(s, k2) ELSE 0

NestedMatchEnd(s, i) == IF s[i] # "{" THEN 0 ELSE NestedScan(s, i)

\* re.findall(json_pattern, s) of clean_json_logs from position i on
RECURSIVE FindNested(_, _)
FindNested(s, i) ==
    IF i > Len(s) THEN <<>>
    ELSE IF NestedMatchEnd(s, i) > 0
         THEN <<SubSeq(s, i, NestedMatchEnd(s, i))>>
              \o FindNested(s, NestedMatchEnd(s, i) + 1)
         ELSE FindNested(s, i + 1)

\* the first position from i on that holds no whitespace
RECURSIVE SkipWs(_, _)
SkipWs(s, i) ==
    IF i <= Len(s) /\ s[i] \in Whitespace THEN SkipWs(s, i + 1) ELSE i

ParseFailed == [ok |-> FALSE, out |-> <<>>, next |-> 0]

\* a JSON string at position i: up to the next quote, with no control
\* character in it (the texts of the model have no backslash); out is what
\* json.dumps writes for it
ParseString(s, i) ==
    LET S == {k \in (i + 1)..Len(s) : s[k] = "\""}
        j == CHOOSE k \in S : \A m \in S : k <= m
    IN  IF i > Len(s) \/ s[i] # "\"" \/ S = {} THEN ParseFailed
        ELSE IF \E k \in (i + 1)..(j - 1) : s[k] \in {"\n", "\t", "\r"}
        THEN ParseFailed
        ELSE [ok |-> TRUE, out |-> SubSeq(s, i, j), next |-> j + 1]

\* a JSON number at position i: the texts of the model have the digit 1
RECURSIVE DigitsEnd(_, _)
DigitsEnd(s, i) ==
    IF i <= Len(s) /\ s[i] = "1" THEN DigitsEnd(s, i + 1) ELSE i

ParseNumber(s, i) ==
    IF DigitsEnd(s, i) = i THEN ParseFailed
    ELSE [ok |-> TRUE, out |-> SubSeq(s, i, DigitsEnd(s, i) - 1),
          next |-> DigitsEnd(s, i)]

\* a JSON object at position i, of no member or of one (the texts of the
\* model have no comma); out is json.dumps(json.loads(...),
\* separators=(',', ':')) of it
RECURSIVE ParseObject(_, _)
ParseObject(s, i) ==
    IF i > Len(s) \/ s[i] # "{" THEN ParseFailed
    ELSE
    LET j == SkipWs(s, i + 1)
        key == ParseString(s, j)
        c == SkipWs(s, key.next)
        v == SkipWs(s, c + 1)
        val == IF v > Len(s) THEN ParseFailed
               ELSE IF s[v] = "\"" THEN ParseString(s, v)
               ELSE IF s[v] = "{" THEN ParseObject(s, v)
               ELSE ParseNumber(s, v)
        e == SkipWs(s, val.next)
    IN  IF j > Len(s) THEN ParseFailed
        ELSE IF s[j] = "}" THEN [ok |-> TRUE, out |-> <<"{", "}">>, next |-> j + 1]
        ELSE IF ~key.ok THEN ParseFailed
        ELSE IF c > Len(s) \/ s[c] # ":" THEN ParseFailed
        ELSE IF ~val.ok THEN ParseFailed
        ELSE IF e > Len(s) \/ s[e] # "}" THEN ParseFailed
        ELSE [ok |-> TRUE,
              out |-> <<"{">> \o key.out \o <<":">> \o val.out \o <<"}">>,
              next |-> e + 1]

\* ' '.join(s.split())
RECURSIVE CollapseWs(_)
CollapseWs(s) ==
    LET t == LStripWs(s)
        S == {k \in 1..Len(t) : t[k] \in Whitespace}
        w == CHOOSE k \in S : \A m \in S : k <= m
        rest == CollapseWs(SubSeq(t, w, Len(t)))
    IN  IF t = <<>> THEN <<>>
        ELSE IF S = {} THEN t
        ELSE IF rest = <<>> THEN SubSeq(t, 1, w - 1)
        ELSE SubSeq(t, 1, w - 1) \o <<" ">> \o rest

\* lines 128-137: one match, parsed and written again, or collapsed
FormatJson(json_str) ==
    LET r == ParseObject(json_str, 1)
    IN  IF r.ok /\ SkipWs(json_str, r.next) = Len(json_str) + 1 THEN r.out
        ELSE CollapseWs(json_str)

\* '\n'.join(parts)
RECURSIVE JoinLines(_)
JoinLines(parts) ==
    IF parts = <<>> THEN <<>>
    ELSE IF Len(parts) = 1 THEN parts[1]
    ELSE parts[1] \o <<"\n">> \o JoinLines(Tail(parts))

\* clean_json_logs
CleanJsonLogs(output) ==
    LET json_objects == FindNested(output, 1)
    IN  JoinLines([k \in 1..Len(json_objects) |-> FormatJson(json_objects[k])])

RECURSIVE Flatten(_)
Flatten(parts) ==
    IF parts = <<>> THEN <<>> ELSE parts[1] \o Flatten(Tail(parts))

\* the pieces of the texts given to clean_json_logs
JsonChunks ==
    {<<"{">>, <<"}">>, <<" ">>, <<"1">>, <<"\"", "a", "\"", ":">>,
     <<"\"", "\n", "\"", ":">>}

JsonTexts ==
    {Flatten(c) : c \in UNION {[1..n -> JsonChunks] : n \in 0..MaxChunks}}

InitCleanJson ==
    /\ NoRequest
    /\ fmt \in {[pc |-> "in", text |-> t] : t \in JsonTexts}

\* clean_json_logs applied to the text, and to its own result
CleanJson ==
    /\ fmt.pc = "in"
    /\ fmt' = [pc |-> "cleaned", text |-> fmt.text,
               once |-> CleanJsonLogs(fmt.text),
               twice |-> CleanJsonLogs(CleanJsonLogs(fmt.text))]
    /\ FmtFrame

NextCleanJson == CleanJson

SpecCleanJson == InitCleanJson /\ [][NextCleanJson]_vars

\* str.lower() of a character, for re.IGNORECASE
LowerChar(c) ==
    CASE c = "A" -> "a"
      [] c = "B" -> "b"
      [] c = "C" -> "c"
      [] c = "D" -> "d"
      [] c = "E" -> "e"
      [] c = "F" -> "f"
      [] c = "G" -> "g"
      [] c = "H" -> "h"
      [] c = "I" -> "i"
      [] c = "J" -> "j"
      [] c = "K" -> "k"
      [] c = "L" -> "l"
      [] c = "M" -> "m"
      [] c = "N" -> "n"
      [] c = "O" -> "o"
      [] c = "P" -> "p"
      [] c = "Q" -> "q"
      [] c = "R" -> "r"
      [] c = "S" -> "s"
      [] c = "T" -> "t"
      [] c = "U" -> "u"
      [] c = "V" -> "v"
      [] c = "W" -> "w"
      [] c = "X" -> "x"
      [] c = "Y" -> "y"
      [] c = "Z" -> "z"
      [] OTHER -> c

LowerSeq(s) == [i \in 1..Len(s) |-> LowerChar(s[i])]

StartsWith(s, pre) == Len(s) >= Len(pre) /\ SubSeq(s, 1, Len(pre)) = pre

\* sub occurs in s at position i
OccursAt(s, sub, i) ==
    i >= 1 /\ i + Len(sub) - 1 <= Len(s) /\ SubSeq(s, i, i + Len(sub) - 1) = sub

\* s without one ':' at its end, for the ':?$' of the patterns
DropColon(s) ==
    IF Len(s) > 0 /\ s[Len(s)] = ":" THEN SubSeq(s, 1, Len(s) - 1) ELSE s

\* ^c+$
OnlyChar(s, c) == Len(s) > 0 /\ \A i \in 1..Len(s) : s[i] = c

WordSample == <<"s", "a", "m", "p", "l", "e">>
WordEvents == <<"e", "v", "e", "n", "t", "s">>
WordLogs == <<"l", "o", "g", "s">>
WordEvent == <<"e", "v", "e", "n", "t", " ">>

\* the captions of the patterns ^Traffic logs:?$ ... ^Threat log:?$
Captions ==
    {<<"t", "r", "a", "f", "f", "i", "c", " ", "l", "o", "g", "s">>,
     <<"t", "h", "r", "e", "a", "t", " ", "l", "o", "g", "s">>,
     <<"t", "r", "a", "f", "f", "i", "c", " ", "l", "o", "g">>,
     <<"t", "h", "r", "e", "a", "t", " ", "l", "o", "g">>}

Digits == {"0", "1", "2", "3", "4", "5", "6", "7", "8", "9"}

\* re.match of one of skip_patterns on t; t is in lower case when the
\* match ignores the case (the lines of the model have no '\n' inside)
SkipMatch(t) ==
    \/ OnlyChar(t, "=")
    \/ OnlyChar(t, "-")
    \/ \E i, j \in 1..Len(t) :
          /\ OccursAt(t, WordSample, i) /\ OccursAt(t, WordEvents, j)
          /\ i + Len(WordSample) <= j
    \/ /\ StartsWith(t, WordSample)
       /\ \/ EndsWith(t, WordLogs) /\ Len(t) >= Len(WordSample) + Len(WordLogs)
          \/ /\ EndsWith(DropColon(t), WordLogs) /\ DropColon(t) # t
             /\ Len(t) > Len(WordSample) + Len(WordLogs)
    \/ t \in Captions \/ (DropColon(t) # t /\ DropColon(t) \in Captions)
    \/ /\ StartsWith(t, WordEvent)
       /\ \/ /\ Len(t) > Len(WordEvent)
             /\ \A k \in (Len(WordEvent) + 1)..Len(t) : t[k] \in Digits
          \/ /\ DropColon(t) # t /\ Len(DropColon(t)) > Len(WordEvent)
             /\ \A k \in (Len(WordEvent) + 1)..Len(DropColon(t)) : t[k] \in Digits
    \/ \A k \in 1..Len(t) : t[k] \in Whitespace

\* ShouldSkip that matches with the case of the line
ShouldSkip_cased(line) == SkipMatch(Strip(line))

\* lines 108-113: should_skip
ShouldSkip(line) == SkipMatch(LowerSeq(Strip(line)))

\* output.split('\n')
RECURSIVE SplitLines(_)
SplitLines(s) ==
    LET S == {k \in 1..Len(s) : s[k] = "\n"}
        n == CHOOSE k \in S : \A m \in S : k <= m
    IN  IF S = {} THEN <<s>>
        ELSE <<SubSeq(s, 1, n - 1)>> \o SplitLines(SubSeq(s, n + 1, Len(s)))

\* line 115: the line is appended
IsRetained(line) == ~ShouldSkip(line) /\ Strip(line) # <<>>

\* clean_raw_logs
CleanRawLogs(output) == JoinLines(SelectSeq(SplitLines(output), IsRetained))

\* lines that match none of the patterns, and lines that match one
RawKept ==
    {<<"=", "-">>,
     <<"E", "v", "e", "n", "t", "s", " ", "S", "a", "m", "p", "l", "e">>,
     <<" ", "f", "o", "o", "=", "b", "a", "r", " ", "\r">>,
     <<"E", "v", "e", "n", "t", " ", "1", ":", " ", "a">>}

RawDropped ==
    {<<"=", "=", "=">>,
     <<"-", "-">>,
     <<"S", "a", "m", "p", "l", "e", " ", "E", "v", "e", "n", "t", "s", ":">>,
     <<"s", "a", "m", "p", "l", "e", " ", "f", "w", " ", "L", "O", "G", "S">>,
     <<"T", "r", "a", "f", "f", "i", "c", " ", "l", "o", "g", "s", ":">>,
     <<"T", "h", "r", "e", "a", "t", " ", "l", "o", "g">>,
     <<"E", "v", "e", "n", "t", " ", "1", "2", ":">>,
     <<" ", "e", "v", "e", "n", "t", " ", "1", " ">>,
     <<>>}

RawLines == RawKept \cup RawDropped

RawLists == UNION {[1..n -> RawLines] : n \in 1..MaxRawLines}

InitCleanRaw ==
    /\ NoRequest
    /\ fmt \in {[pc |-> "in", lines |-> ls, text |-> JoinLines(ls)] :
                   ls \in RawLists}

CleanRaw ==
    /\ fmt.pc = "in"
    /\ fmt' = [pc |-> "cleaned_raw", lines |-> fmt.lines, text |-> fmt.text,
               out |-> CleanRawLogs(fmt.text)]
    /\ FmtFrame

NextCleanRaw == CleanRaw

SpecCleanRaw == InitCleanRaw /\ [][NextCleanRaw]_vars

-----------------------------------------------------------------------------
(* The two pipes between generate_and_stream and its child: Popen gives    *)
(* the child a pipe for standard output and one for standard error, the    *)
(* generator reads standard output to its end, then standard error to its  *)
(* end, then waits for the child.                                          *)

\* what the child writes, in order, before it exits
ChildPrograms ==
    UNION {[1..n -> {"out", "err"}] : n \in 0..MaxChildWrites}

PipeFrame == UNCHANGED registryVars /\ UNCHANGED <<run, thr, san, fmt>>

InitPipe == NoRequest /\ fmt = FmtIdle

\* subprocess.Popen(command, stdout=PIPE, stderr=PIPE)
Popen ==
    /\ pipe.pc = "idle"
    /\ pipe' \in {[pc |-> "read_stdout", dest |-> k, child |-> "running",
                   prog |-> g, out |-> 0, err |-> 0, lines |-> 0] :
                     k \in {"syslog", "hec"}, g \in ChildPrograms}
    /\ PipeFrame

\* the pipe the next write of the child goes to has room
CanWrite(p) ==
    /\ p.child = "running" /\ Len(p.prog) > 0
    /\ IF Head(p.prog) = "out" THEN p.out < PipeCapacity
       ELSE p.err < PipeCapacity

\* the child writes to one of its pipes; the write blocks while it is full
ChildWrite ==
    /\ pipe.pc \in {"read_stdout", "read_stderr", "wait"}
    /\ CanWrite(pipe)
    /\ pipe' = IF Head(pipe.prog) = "out"
               THEN [pipe EXCEPT !.prog = Tail(@), !.out = @ + 1]
               ELSE [pipe EXCEPT !.prog = Tail(@), !.err = @ + 1]
    /\ PipeFrame

\* the child has written everything and exits, which closes its pipe ends
ChildExit ==
    /\ pipe.pc \in {"read_stdout", "read_stderr", "wait"}
    /\ pipe.child = "running" /\ pipe.prog = <<>>
    /\ pipe' = [pipe EXCEPT !.child = "exited"]
    /\ PipeFrame

\* process.stdout.readline() returns a line, which is sent and yielded
ReadLine ==
    /\ pipe.pc = "read_stdout" /\ pipe.out > 0
    /\ pipe' = [pipe EXCEPT !.out = @ - 1, !.lines = @ + 1]
    /\ PipeFrame

\* lines 482-485: sending the line read to the syslog server fails, the
\* child is terminated and the loop is left
SendFails ==
    /\ pipe.pc = "read_stdout" /\ pipe.out > 0 /\ pipe.dest = "syslog"
    /\ pipe' = [pipe EXCEPT !.out = @ - 1, !.child = "exited", !.prog = <<>>,
                            !.pc = "read_stderr"]
    /\ PipeFrame

\* process.stdout.readline() returns '' at the end of standard output
StdoutEof ==
    /\ pipe.pc = "read_stdout" /\ pipe.out = 0 /\ pipe.child = "exited"
    /\ pipe' = [pipe EXCEPT !.pc = "read_stderr"]
    /\ PipeFrame

\* process.stderr.read() takes what the pipe holds and goes on to its end
ReadStderr ==
    /\ pipe.pc = "read_stderr"
    /\ \/ pipe.err > 0 /\ pipe' = [pipe EXCEPT !.err = 0]
       \/ /\ pipe.err = 0 /\ pipe.child = "exited"
          /\ pipe' = [pipe EXCEPT !.pc = "wait"]
    /\ PipeFrame

\* process.wait(), then the finally clause and the end of the generator
WaitChild ==
    /\ pipe.pc = "wait" /\ pipe.child = "exited"
    /\ pipe' = [pipe EXCEPT !.pc = "done"]
    /\ PipeFrame

NextPipe ==
    \/ Popen \/ ChildWrite \/ ChildExit \/ ReadLine \/ SendFails
    \/ StdoutEof \/ ReadStderr \/ WaitChild

SpecPipe == InitPipe /\ [][NextPipe]_vars

\* every step that can be taken is taken in the end: the child is scheduled
\* and the generator is resumed by the server
FairSpecPipe == SpecPipe /\ WF_vars(NextPipe)

-----------------------------------------------------------------------------
(* Requests handled by concurrent threads of the server.  A step is one    *)
(* access to the file: the read of _load_destinations (lines 44-52), the   *)
(* open(..., 'w') of _save_destinations, which truncates the file (line    *)
(* 56), and its json.dump and close, which write the list (lines 57-58).   *)

Threads == {"t1", "t2"}

ThrIdle == [pc |-> "idle"]

ConcEntry ==
    [id |-> <<"hec", 1>>, type |-> "hec", name |-> "prod",
     url |-> Host \o SlashEvent]

ConcRequests ==
    {[op |-> "list"], [op |-> "delete", dest_id |-> <<"hec", 1>>]}
    \cup {[op |-> "create", payload |-> p] :
            p \in {Payload("hec", "prod", Host \o SlashEvent, TokA, NoIp, PNone, ""),
                   Payload("hec", "d1", Host \o SlashEvent, TokB, NoIp, PNone, ""),
                   Payload("syslog", "d1", NoUrl, NoToken, "10.0.0.5", PNum(514), "udp"),
                   Payload("hec", NoName, NoUrl, NoToken, NoIp, PNone, "")}}

\* a file that open(..., 'w') has truncated and that is not written yet;
\* json.load raises on it and _load_destinations returns []
TruncatedFile == [kind |-> "partial", data |-> <<>>]

InitConc ==
    /\ \/ file = AbsentFile /\ keyring = {}
       \/ /\ file = [kind |-> "json", data |-> <<ConcEntry>>]
          /\ keyring = {[id |-> <<"hec", 1>>, token |-> TokA]}
    /\ HAS_KEYRING = TRUE
    /\ req = [op |-> "none"]
    /\ resp = [status |-> 0]
    /\ allOk = TRUE
    /\ lastTok = [n \in Names |-> NoToken]
    /\ repeated = FALSE
    /\ faults = 0
    /\ steps = 0
    /\ run = RunIdle
    /\ thr = [t \in Threads |-> ThrIdle]
    /\ san = SanIdle
    /\ fmt = FmtIdle
    /\ pipe = PipeIdle

ConcFrame ==
    UNCHANGED <<HAS_KEYRING, req, resp, allOk, lastTok, repeated, faults, steps,
                run, san, fmt, pipe>>

\* a thread takes a request
ConcStart(t) ==
    /\ thr[t].pc = "idle"
    /\ \E r \in ConcRequests :
          thr' = [thr EXCEPT ![t] =
                    [pc |-> "load", r |-> r, items |-> <<>>, seen |-> <<>>,
                     during |-> FALSE, expected |-> {}, before |-> <<>>,
                     status |-> 0]]
    /\ UNCHANGED <<file, keyring>>
    /\ ConcFrame

\* the handler up to its _save_destinations: the load, and what the handler
\* does with the list; 'during' and 'expected' record whether another thread
\* was between the open and the close of its save, and the lists of before
\* and after that save
ConcLoad(t) ==
    /\ thr[t].pc = "load"
    /\ LET items == Load(file)
           writers == {w \in Threads \ {t} : thr[w].pc = "save_write"}
           me == [thr[t] EXCEPT
                    !.seen = items, !.during = writers # {},
                    !.expected = UNION {{thr[w].before, thr[w].items} :
                                            w \in writers}]
           r == thr[t].r
       IN  IF r.op = "list"
           THEN /\ thr' = [thr EXCEPT ![t] =
                             [me EXCEPT !.pc = "done",
                                        !.status = ListResponse(items).status]]
                /\ UNCHANGED keyring
           ELSE IF r.op = "create"
           THEN LET out == CreateOutcome(items, keyring, HAS_KEYRING,
                                         r.payload, TRUE)
                IN  /\ thr' = [thr EXCEPT ![t] =
                                 [me EXCEPT
                                    !.pc = IF out.save THEN "save_open" ELSE "done",
                                    !.items = out.items,
                                    !.status = out.resp.status]]
                    /\ keyring' = out.keyring
           ELSE /\ thr' = [thr EXCEPT ![t] =
                             [me EXCEPT !.pc = "save_open",
                                        !.items = DeleteFilter(items, r.dest_id),
                                        !.status = DeleteResponse(TRUE).status]]
                /\ keyring' = DeletePassword(keyring, r.dest_id, TRUE)
    /\ UNCHANGED file
    /\ ConcFrame

\* _save_destinations, line 56: open(DESTINATIONS_FILE, 'w')
ConcSaveOpen(t) ==
    /\ thr[t].pc = "save_open"
    /\ thr' = [thr EXCEPT ![t] =
                 [@ EXCEPT !.pc = "save_write", !.before = Load(file)]]
    /\ file' = TruncatedFile
    /\ UNCHANGED keyring
    /\ ConcFrame

\* _save_destinations, lines 57-58: json.dump and the close that writes the
\* buffer.  Over a file another thread has written since this thread's open,
\* the text lands on the other text from offset 0: the file holds this
\* thread's list, or this thread's text followed by the rest of the longer
\* other text, which json.load rejects
ConcSaveWrite(t) ==
    /\ thr[t].pc = "save_write"
    /\ \/ file' = [kind |-> "json", data |-> thr[t].items]
       \/ file.kind = "json" /\ file' = TruncatedFile
    /\ thr' = [thr EXCEPT ![t] = [@ EXCEPT !.pc = "done"]]
    /\ UNCHANGED keyring
    /\ ConcFrame

NextConc ==
    \E t \in Threads :
        ConcStart(t) \/ ConcLoad(t) \/ ConcSaveOpen(t) \/ ConcSaveWrite(t)

SpecConc == InitConc /\ [][NextConc]_vars

-----------------------------------------------------------------------------
(* Properties.  They are stated on the persisted list Load(file) and the    *)
(* keyring, with their own definitions, not with those of the handlers.     *)

Registry == Load(file)

\* the descriptors of items with the given name and type
Matching(items, n, t) ==
    {i \in 1..Len(items) : Get(items[i], "name") = n /\ Get(items[i], "type") = t}

\* the request was a create whose file write was reached and succeeded
NoFault(r) == r.setOk /\ r.saveOut = "ok"

\* C1: the persisted list holds at most one descriptor per (name, type), and
\* a create whose (name, type) is already stored leaves the length of the
\* list and the id at every position as they were.
C1_OnePerNameType ==
    [][ /\ \A n \in Names, t \in DestTypes :
              Cardinality(Matching(Load(file'), n, t)) <= 1
        /\ ( /\ req'.op = "create"
             /\ file'.kind = "json"
             /\ Matching(Load(file), req'.payload.name, req'.payload.type) # {}
             => /\ Len(Load(file')) = Len(Load(file))
                /\ \A i \in 1..Len(Load(file)) :
                      Get(Load(file')[i], "id") = Get(Load(file)[i], "id") )
      ]_vars

\* C1 witness: a create answered 201 matched a stored descriptor of a
\* registry that holds the same name under both types.
C1_Witness ==
    /\ req.op = "create" /\ req.hit /\ resp.status = 201
    /\ \E n \in Names : \A t \in DestTypes : Matching(Registry, n, t) # {}

\* the fields create_destination gives a descriptor
DescriptorFields == {"id", "type", "name", "url", "ip", "port", "protocol"}

\* C2: no descriptor in the destinations file has a field other than the
\* descriptor fields, and no url in it contains a submitted token.
C2_NoTokenInFile ==
    \A i \in 1..Len(file.data) :
        /\ DOMAIN file.data[i] \subseteq DescriptorFields
        /\ "token" \notin DOMAIN file.data[i]
        /\ Has(file.data[i], "url") =>
              \A k \in Tokens : ~Contains(file.data[i].url, k)

\* C2 witness: an HEC descriptor is on file, its token is in the keyring, and
\* a later request failed.
C2_Witness ==
    /\ \E i \in 1..Len(Registry) :
          /\ Registry[i].type = "hec"
          /\ KrGet(keyring, Registry[i].id) \in Tokens
    /\ resp.status = 500

\* C3: an HEC create handled without a keyring, or whose set_password
\* raises, is answered with an error and leaves the file as it was.
C3_FailClosed ==
    [][ /\ req'.op = "create"
        /\ req'.payload.type = "hec"
        /\ (~HAS_KEYRING \/ ~req'.setOk)
        => /\ resp'.status \in {400, 500}
           /\ "error" \in DOMAIN resp'.body
           /\ file' = file
      ]_vars

\* C3 witness: set_password raised in an update that submitted another url
\* than the stored one.
C3_Witness ==
    /\ req.op = "create" /\ req.payload.type = "hec" /\ ~req.setOk
    /\ resp.status = 500
    /\ \E i \in Matching(Registry, req.payload.name, "hec") :
          /\ Registry[i].url = Host \o SlashEvent
          /\ req.payload.url = Host \o <<"/">>

\* C4: after requests that all succeeded (and whose keyring and file calls
\* all succeeded), every HEC descriptor has exactly one secret under its id,
\* and it is the token submitted last for the descriptor's name: an
\* operation on another destination has not overwritten or deleted it.
C4_SecretPerDestination ==
    allOk /\ faults = 0 =>
        \A i \in 1..Len(Registry) :
            Get(Registry[i], "type") = "hec" =>
                /\ Cardinality({e \in keyring : e.id = Registry[i].id}) = 1
                /\ KrGet(keyring, Registry[i].id) = lastTok[Registry[i].name]


\* the fields list_destinations returns for a descriptor of the given type
ListedFields(t) ==
    IF t = "hec" THEN {"id", "name", "type", "url"}
    ELSE IF t = "syslog" THEN {"id", "name", "type", "ip", "port", "protocol"}
    ELSE {"id", "name", "type"}

\* the tokens the stored descriptors and the keyring hold
KnownSecrets ==
    {e.token : e \in keyring}
    \cup {Registry[i].token : i \in {j \in 1..Len(Registry) : Has(Registry[j], "token")}}

\* C5: the response of list_destinations has one entry per descriptor, in
\* order, with exactly the fields of the descriptor's type, each the stored
\* value; no entry has a token field and no listed url is a secret.
C5_ListRedacted ==
    req.op = "list" =>
        /\ resp.status = 200
        /\ Len(resp.body.destinations) = Len(Registry)
        /\ \A i \in 1..Len(Registry) :
              LET e == resp.body.destinations[i]
                  d == Registry[i]
              IN  /\ DOMAIN e = ListedFields(Get(d, "type"))
                  /\ "token" \notin DOMAIN e
                  /\ \A k \in DOMAIN e : e[k] = Get(d, k)
                  /\ Has(e, "url") => e.url \notin KnownSecrets

\* C5 witness: a list was answered while a descriptor on file held a token
\* in plaintext and another was a syslog descriptor.
C5_Witness ==
    /\ req.op = "list"
    /\ \E i \in 1..Len(Registry) : Has(Registry[i], "token")
    /\ \E i \in 1..Len(Registry) : Get(Registry[i], "type") = "syslog"

\* C6: a create that repeats the payload of the create before it, both
\* handled without an I/O failure, leaves the file, the keyring and the
\* response (with the id in it) as the first left them.
C6_UpsertIdempotent ==
    [][ /\ req.op = "create" /\ req'.op = "create"
        /\ req'.payload = req.payload
        /\ NoFault(req) /\ NoFault(req')
        => /\ file' = file
           /\ keyring' = keyring
           /\ resp' = resp
      ]_vars

\* C6 witness: a create repeated the payload of the create before it, matched
\* the descriptor the first one stored, and was answered 201 with its id.
C6_Witness ==
    /\ req.op = "create" /\ repeated /\ req.hit /\ NoFault(req)
    /\ resp.status = 201
    /\ Len(Registry) >= 2
    /\ \E i \in Matching(Registry, req.payload.name, req.payload.type) :
          /\ Registry[i].id = resp.body.id
          /\ KrGet(keyring, Registry[i].id) = req.payload.token

\* the valid syslog payloads of the model
ValidSyslog(p) ==
    /\ p.type = "syslog" /\ p.name \in Names /\ p.ip \in Ips
    /\ p.port = PNum(514) /\ p.protocol \in {"udp", "UDP", "tcp", "TCP"}

\* C7: a valid syslog payload whose file write succeeds is answered with a
\* success response that carries id, name and type, and its descriptor is
\* persisted.
C7_SyslogCreated ==
    /\ req.op = "create" /\ ValidSyslog(req.payload) /\ req.saveOut = "ok"
    => /\ Is2xx(resp)
       /\ {"id", "name", "type"} \subseteq DOMAIN resp.body
       /\ \E i \in Matching(Registry, req.payload.name, "syslog") :
             /\ Registry[i].id = resp.body.id
             /\ resp.body.name = req.payload.name
             /\ resp.body.type = "syslog"


\* the ids of the descriptors of items
IdsOf(items) == {items[i].id : i \in {j \in 1..Len(items) : Has(items[j], "id")}}

\* items without the descriptors whose id is dest_id, the others in order
Without(items, dest_id) ==
    LET Keep(d) == ~(Has(d, "id") /\ d.id = dest_id)
    IN  SelectSeq(items, Keep)

\* C8: a delete of an id no descriptor has, whose file write succeeds, is
\* answered 204 and leaves the persisted list and the secrets of the stored
\* destinations as they were.
C8_DeleteUnknown ==
    [][ /\ req'.op = "delete"
        /\ req'.saveOut = "ok"
        /\ req'.dest_id \notin IdsOf(Load(file))
        => /\ resp'.status = 204
           /\ Load(file') = Load(file)
           /\ \A id \in IdsOf(Load(file)) :
                 {e \in keyring' : e.id = id} = {e \in keyring : e.id = id}
      ]_vars

\* C8 witness: a delete that matched nothing was answered 204 while an HEC
\* destination with its secret was stored.
C8_Witness ==
    /\ req.op = "delete" /\ ~req.hit /\ resp.status = 204
    /\ \E i \in 1..Len(Registry) :
          Registry[i].type = "hec" /\ KrHas(keyring, Registry[i].id)

\* C9 as stated: after a delete answered 204 no descriptor and no secret
\* with that id remains, and the other descriptors are unchanged, in order.
C9_DeleteRemovesBoth ==
    [][ req'.op = "delete" /\ resp'.status = 204
        => /\ req'.dest_id \notin IdsOf(Load(file'))
           /\ ~KrHas(keyring', req'.dest_id)
           /\ Load(file') = Without(Load(file), req'.dest_id)
      ]_vars

\* C9 amended: a delete is answered 204 whenever the file write succeeds,
\* whether or not delete_password raised or the keyring is there; after it no
\* descriptor with that id remains and the other descriptors are unchanged,
\* in order; no secret under that id remains when delete_password was called
\* and returned.
C9_DeleteBestEffort ==
    [][ req'.op = "delete"
        => /\ resp'.status = 204 <=> req'.saveOut = "ok"
           /\ resp'.status = 204 =>
                 /\ req'.dest_id \notin IdsOf(Load(file'))
                 /\ Load(file') = Without(Load(file), req'.dest_id)
                 /\ HAS_KEYRING /\ req'.delOk => ~KrHas(keyring', req'.dest_id)
      ]_vars

\* C9 witness: delete_password raised, the delete was answered 204, the
\* descriptor is gone, another one is still stored and the secret is still
\* in the keyring.
C9_Witness ==
    /\ req.op = "delete" /\ req.hit /\ ~req.delOk /\ resp.status = 204
    /\ Len(Registry) >= 1
    /\ req.dest_id \notin IdsOf(Registry)
    /\ KrHas(keyring, req.dest_id)

\* t is u without its trailing slashes
IsTrimOf(t, u) ==
    \E k \in 0..Len(u) :
        /\ u = t \o Slashes(k)
        /\ Len(t) = 0 \/ t[Len(t)] # Slash

HasSuffix(t, suf) == \E n \in 0..Len(t) : t = SubSeq(t, 1, n) \o suf
HasInfix(t, x) ==
    \E n \in 0..Len(t), m \in 1..(Len(t) + 1) :
        t = SubSeq(t, 1, n) \o x \o SubSeq(t, m, Len(t))

\* s is the url to be stored for the submitted url u
IsStoredUrlOf(s, u) ==
    \E n \in 0..Len(u) :
        LET t == SubSeq(u, 1, n)
        IN  /\ IsTrimOf(t, u)
            /\ IF \/ HasSuffix(t, SlashEvent)
                  \/ HasSuffix(t, SlashRaw)
                  \/ HasInfix(t, SvcCollector)
               THEN s = t
               ELSE s = t \o SvcCollector

\* C10: after an HEC create answered 201, the url stored for the name, and
\* returned, is the submitted url without its trailing slashes, followed by
\* '/services/collector' exactly when that ends neither in '/event' nor in
\* '/raw' and does not contain '/services/collector'.
C10_UrlNormalized ==
    req.op = "create" /\ req.payload.type = "hec" /\ resp.status = 201
    => /\ IsStoredUrlOf(resp.body.url, req.payload.url)
       /\ \A i \in Matching(Registry, req.payload.name, "hec") :
             Registry[i].url = resp.body.url
       /\ Matching(Registry, req.payload.name, "hec") # {}

\* C10 witness: a url with two trailing slashes was stored, without them and
\* with the collector path, over the url of an existing descriptor.
C10_Witness ==
    /\ req.op = "create" /\ resp.status = 201
    /\ req.payload.url = Host \o <<"/", "/">>
    /\ resp.body.url = Host \o SvcCollector
    /\ req.hit


\* the protocol values that are TCP or UDP up to case, with their upper case
CiTcpUdp == {"udp", "UDP", "tcp", "Tcp", "TCP"}
UpperOf(proto) == IF proto \in {"udp", "UDP"} THEN "UDP" ELSE "TCP"

\* a field of the syslog payload is missing, or its protocol is another one
SyslogRejected(p) ==
    p.name = NoName \/ p.ip = NoIp \/ p.port = PNone \/ p.protocol \notin CiTcpUdp

\* C11: a syslog create with a missing name, ip or port, or a protocol that
\* is not TCP or UDP up to case, is answered 400 and leaves the file as it
\* was; one with name, ip, port 514 and such a protocol, whose file write
\* succeeds, is persisted; and every syslog descriptor on file has the
\* protocol of its payload in upper case.
C11_SyslogValidation ==
    [][ req'.op = "create" /\ req'.payload.type = "syslog"
        => LET p == req'.payload
               new == Load(file')
           IN  /\ SyslogRejected(p) => resp'.status = 400 /\ file' = file
               /\ file' # file /\ file'.kind = "json" => ~SyslogRejected(p)
               /\ ( /\ ~SyslogRejected(p) /\ p.port = PNum(514)
                    /\ req'.saveOut = "ok"
                    => /\ Matching(new, p.name, "syslog") # {}
                       /\ \A i \in Matching(new, p.name, "syslog") :
                             new[i].protocol = UpperOf(p.protocol) )
               /\ \A i \in 1..Len(new) :
                     new[i].type = "syslog" => new[i].protocol \in {"TCP", "UDP"}
      ]_vars

\* C11 witness: a payload with protocol 'Tcp' was stored over a descriptor,
\* with protocol 'TCP'.
C11_Witness ==
    /\ req.op = "create" /\ req.payload.protocol = "Tcp" /\ req.hit
    /\ req.saveOut = "ok"
    /\ \E i \in Matching(Registry, req.payload.name, "syslog") :
          Registry[i].protocol = "TCP"

\* the valid payloads of the registry specification
ValidPayload(p) ==
    \/ ValidSyslog(p)
    \/ p.type = "hec" /\ p.name \in Names /\ p.url \in Urls /\ p.token \in Tokens

\* C12: a create that changes the file either replaces the fields of the one
\* descriptor of its (name, type), at its position and with its id, and no
\* other descriptor, or, when there is none, appends one descriptor whose id
\* is its type and one more than the number of descriptors before; and a
\* valid create handled without an I/O failure (with a keyring, if HEC)
\* that matches none appends.
C12_UpsertFrame ==
    [][ req'.op = "create"
        => LET p == req'.payload
               old == Load(file)
               new == Load(file')
               M == Matching(old, p.name, p.type)
           IN  /\ file' # file /\ file'.kind = "json" =>
                     IF M # {}
                     THEN /\ Len(new) = Len(old)
                          /\ \A i \in 1..Len(old) :
                                /\ new[i].id = old[i].id
                                /\ new[i].name = old[i].name
                                /\ new[i].type = old[i].type
                                /\ i \notin M => new[i] = old[i]
                          /\ \A i \in M :
                                IF p.type = "hec"
                                THEN IsStoredUrlOf(new[i].url, p.url)
                                ELSE /\ new[i].ip = p.ip
                                     /\ new[i].protocol = UpperOf(p.protocol)
                     ELSE /\ Len(new) = Len(old) + 1
                          /\ SubSeq(new, 1, Len(old)) = old
                          /\ new[Len(new)].id = <<p.type, Len(old) + 1>>
                          /\ new[Len(new)].name = p.name
                          /\ new[Len(new)].type = p.type
               /\ ( /\ ValidPayload(p) /\ NoFault(req') /\ M = {}
                    /\ (p.type = "hec" => HAS_KEYRING)
                    => Len(new) = Len(old) + 1 )
      ]_vars

\* C12 witness: a create replaced the url of the first of three descriptors.
C12_Witness ==
    /\ req.op = "create" /\ req.hit /\ resp.status = 201
    /\ Len(Registry) = 3
    /\ Matching(Registry, req.payload.name, "hec") = {1}
    /\ IsStoredUrlOf(Registry[1].url, req.payload.url)


\* C20: the sanitised line does not contain the token, for every line,
\* every non-empty token and every non-empty url.
C20_TokenRemoved ==
    san.pc = "out" /\ san.token # <<>> /\ san.url # <<>>
    => ~HasInfix(san.out, san.token)


\* the run has a generator (the request was not answered 400)
Streaming == run.pc \notin {"idle", "rejected"}

IsLogLine(e) == e.tag = "LOG"
IsSenderLine(e) == e.tag = "NONE"
LogLines == SelectSeq(run.stream, IsLogLine)
SenderLines == SelectSeq(run.stream, IsSenderLine)

IsPrefixOf(s, t) == Len(s) <= Len(t) /\ SubSeq(t, 1, Len(s)) = s

\* t is l without its leading and trailing whitespace
IsStripOf(t, l) ==
    \E i \in 1..(Len(l) + 1), j \in 0..Len(l) :
        /\ t = SubSeq(l, i, j)
        /\ \A k \in 1..(i - 1) : l[k] \in Whitespace
        /\ \A k \in (j + 1)..Len(l) : l[k] \in Whitespace
        /\ t # <<>> => t[1] \notin Whitespace /\ t[Len(t)] \notin Whitespace

\* d is the payload of line l: l stripped, then one newline
IsPayloadOf(d, l) ==
    /\ Len(d) >= 1 /\ d[Len(d)] = "\n"
    /\ IsStripOf(SubSeq(d, 1, Len(d) - 1), l)

\* a line of the sender with nothing in it to replace
IsClean(l) ==
    /\ ~HasInfix(l, run.token) /\ ~HasInfix(l, run.url)
    /\ ~HasInfix(l, run.nurl)

\* the i-th transmission carries the i-th line of the child and the i-th
\* LOG line is the i-th line of the child; in the HEC branch the i-th
\* streamed line is the i-th line of the sender
InOrder ==
    Streaming =>
        /\ Len(run.calls) <= Len(run.produced)
        /\ \A i \in 1..Len(run.calls) :
              IsPayloadOf(run.calls[i].data, run.produced[i])
        /\ Len(LogLines) <= Len(run.calls)
        /\ \A i \in 1..Len(LogLines) :
              IsStripOf(LogLines[i].text, run.produced[i])
        /\ run.q.destination = "syslog" => Len(run.calls) = Len(run.produced)
        /\ run.q.destination = "hec" =>
              /\ Len(SenderLines) = Len(run.produced)
              /\ \A i \in 1..Len(SenderLines) :
                    IF IsClean(run.produced[i])
                    THEN SenderLines[i].text = run.produced[i]
                    ELSE SenderLines[i].text \notin HecLines \cup {<<>>}

\* C14: transmissions and streamed lines are only ever added at the end,
\* one transmission per line read, and the i-th of them is the i-th line
\* the child wrote: lines are sent and streamed in the order the child
\* produced them and no two share a transmission.
C14_OrderKept ==
    [][ /\ InOrder'
        /\ Streaming =>
              /\ IsPrefixOf(run.calls, run'.calls)
              /\ IsPrefixOf(run.stream, run'.stream)
              /\ IsPrefixOf(run.produced, run'.produced)
              /\ Len(run'.calls) <= Len(run.calls) + 1
      ]_vars

\* C14 witness: the child wrote two different lines; both were sent and
\* streamed, in that order, and the run ended.
C14_Witness ==
    /\ run.pc = "done" /\ run.q.destination = "syslog"
    /\ Len(run.produced) = 2 /\ run.produced[1] # run.produced[2]
    /\ Len(run.calls) = 2 /\ run.calls[1].ok /\ run.calls[2].ok
    /\ run.calls[1].data # run.calls[2].data
    /\ Len(LogLines) = 2


\* the lines of the stream that state an outcome: the ERROR lines and
\* 'INFO: Log generation complete.' (not the INFO line of the start)
IsStatusLine(e) ==
    e.tag = "ERROR" \/ (e.tag = "INFO" /\ e.msg = "complete")
StatusLines == SelectSeq(run.stream, IsStatusLine)

\* C15: the stream of a run that ended holds exactly one line stating the
\* outcome, and that line is its last line.
C15_OneTerminalStatus ==
    run.pc = "done" =>
        /\ Len(StatusLines) = 1
        /\ run.stream # <<>>
        /\ IsStatusLine(run.stream[Len(run.stream)])

\* a socket was created in the run
SocketCreated == Streaming /\ run.sock # "none"

\* C16: a syslog run that created a socket and whose generator ended, after
\* all lines, after a failed connect, after a failed send or after an
\* exception of Popen or of the read, has yielded the line of the finally
\* clause and has closed the socket.
C16_SocketClosed ==
    run.pc = "done" /\ SocketCreated =>
        /\ run.sock = "closed"
        /\ run.stream[Len(run.stream)].msg = "complete"

\* C16 witness: a run over TCP ended after a failed send, its socket closed.
C16_Witness ==
    /\ run.pc = "done" /\ run.sock = "closed" /\ run.proto = "TCP"
    /\ \E i \in 1..Len(run.calls) : ~run.calls[i].ok

\* the connect of the run failed
ConnectFailed ==
    Streaming /\ \E i \in 1..Len(run.stream) : run.stream[i].msg = "connect"

\* C17: a run whose TCP connect failed and that ended has sent nothing, has
\* no child, has closed its socket, and its stream is one status line, the
\* one of the failed connect.
C17_ConnectFailure ==
    run.pc = "done" /\ ConnectFailed =>
        /\ run.calls = <<>>
        /\ run.child = "none"
        /\ run.sock = "closed"
        /\ Len(StatusLines) = 1
        /\ StatusLines[1].msg = "connect"

\* a send of the run failed
SendFailed == Streaming /\ \E i \in 1..Len(run.calls) : ~run.calls[i].ok

\* C18: the failed send is the last one made; the ERROR line of the failure
\* is in the stream; once the generator is resumed after that line the child
\* has been signalled (or reaped); after the failure nothing is read or sent;
\* and the lines sent before the failure were sent once each.
C18_SendFailureStops ==
    [][ /\ SendFailed' =>
            /\ \A i \in 1..Len(run'.calls) :
                  ~run'.calls[i].ok => i = Len(run'.calls)
            /\ \E i \in 1..Len(run'.stream) :
                  run'.stream[i].tag = "ERROR" /\ run'.stream[i].msg = "send"
            /\ Len(LogLines') = Len(run'.calls) - 1
            /\ Len(run'.calls) = Len(run'.produced)
            /\ run'.pc \in {"y_stderr", "y_final", "done"}
                  => run'.child \in {"terminated", "reaped"}
        /\ SendFailed =>
            /\ run'.calls = run.calls
            /\ run'.produced = run.produced
            /\ run'.pc # "abandoned" => run'.child \in {"terminated", "reaped"}
      ]_vars

\* C18 witness: the second send failed after the first was made; the run
\* ended with one LOG line and the child reaped.
C18_Witness ==
    /\ run.pc = "done" /\ Len(run.calls) = 2
    /\ run.calls[1].ok /\ ~run.calls[2].ok
    /\ Len(LogLines) = 1 /\ run.child = "reaped"

\* C19: every line read is given to one send call: sendto over UDP, with no
\* connect made, and sendall over TCP; its payload is the line without its
\* leading and trailing whitespace, followed by one newline; N lines read
\* are N calls.
C19_OneDatagramPerLine ==
    Streaming /\ run.q.destination = "syslog" =>
        /\ Len(run.calls) = Len(run.produced)
        /\ \A i \in 1..Len(run.calls) :
              /\ IsPayloadOf(run.calls[i].data, run.produced[i])
              /\ run.calls[i].call =
                    (IF run.proto = "UDP" THEN "sendto" ELSE "sendall")
        /\ run.proto = "UDP" => ~run.connected
        /\ run.proto = "TCP" /\ run.calls # <<>> => run.connected

\* C19 witness: a UDP run whose two sends succeeded ended; one of the lines
\* had whitespace around it.
C19_Witness ==
    /\ run.pc = "done" /\ run.proto = "UDP"
    /\ Len(run.produced) = 2 /\ Len(run.calls) = 2
    /\ \A i \in 1..2 : run.calls[i].ok /\ run.calls[i].call = "sendto"
    /\ \E i \in 1..2 : Len(run.calls[i].data) < Len(run.produced[i])


\* C13: a load made while another thread is between the open and the close
\* of its _save_destinations returns the list the file held before that
\* save or the list it holds after it.
C13_NoTornRead ==
    \A t \in DOMAIN thr :
        thr[t].pc # "idle" /\ thr[t].during => thr[t].seen \in thr[t].expected


\* the HEC run has read the token from the keyring
TokenRead == Streaming /\ run.q.destination = "hec" /\ run.token # NoToken

\* C21: no text yielded by an HEC run that has read the token holds the
\* token or the url: each is a text the sanitisation has been applied to.
\* (The token and the url of the run are not parts of a placeholder.)
C21_AllSanitized ==
    TokenRead =>
        \A i \in 1..Len(run.stream) :
            /\ ~HasInfix(run.stream[i].text, run.token)
            /\ ~HasInfix(run.stream[i].text, run.url)

\* the id a request names, for the type it requests
NamedId ==
    IF run.q.destination_id # NoId THEN run.q.destination_id
    ELSE IF run.q.destination = "syslog" THEN run.q.syslog_destination_id
    ELSE run.q.hec_destination_id

\* the request names an id that no stored descriptor of the requested type
\* has, and its generator has run to its first yield
NoSuchDestination ==
    /\ Streaming /\ run.pc # "created"
    /\ run.q.destination \in {"syslog", "hec"}
    /\ run.q.destination = "hec" => run.q.product # ""
    /\ NamedId # NoId
    /\ ~\E i \in 1..Len(Registry) :
          /\ Has(Registry[i], "id") /\ Registry[i].id = NamedId
          /\ Registry[i].type = run.q.destination

\* C23: a run whose request names an id that is not stored for the requested
\* type yields a not-found error first, opens no socket, reads no secret,
\* spawns no child, sends nothing and uses no destination.
C23_NotFoundDeliversNothing ==
    NoSuchDestination =>
        /\ run.stream[1].tag = "ERROR"
        /\ run.stream[1].msg \in {"notfound", "nohec"}
        /\ run.sock = "none"
        /\ run.token = NoToken
        /\ run.child = "none"
        /\ run.calls = <<>>
        /\ run.dest = NoId

\* an ERROR line was yielded after the line of the start
MidStreamError ==
    /\ Streaming
    /\ \E i, j \in 1..Len(run.stream) :
          /\ j < i
          /\ run.stream[j].msg \in {"start", "hstart"}
          /\ run.stream[i].tag = "ERROR"

\* C24: when the last line of a run with an error after its start has been
\* yielded, the socket is closed and the child, if one was spawned, is
\* reaped.
C24_CleanupBeforeLastLine ==
    /\ MidStreamError
    /\ run.stream[Len(run.stream)].msg = "complete"
    => /\ run.sock # "open"
       /\ run.child \in {"none", "reaped"}

\* the positions of the blocks of standard error in the stream
StderrBlocks ==
    {i \in 1..Len(run.stream) : run.stream[i].msg \in {"stderr", "hstderr"}}

\* C29: the stream holds at most one block of the child's standard error,
\* and no forwarded line of its standard output comes after it.
C29_StderrAfterStdout ==
    Streaming =>
        /\ Cardinality(StderrBlocks) <= 1
        /\ \A i \in StderrBlocks : \A j \in (i + 1)..Len(run.stream) :
              run.stream[j].tag \notin {"LOG", "NONE"}

\* C29 witness: two lines were forwarded, then the block of standard error
\* was yielded, then the run ended.
C29_Witness ==
    /\ run.pc = "done" /\ Len(LogLines) = 2
    /\ StderrBlocks = {4}
    /\ run.stream[2].tag = "LOG" /\ run.stream[3].tag = "LOG"

\* C30: a run whose child exited with a code other than 0 ends its stream
\* with an ERROR line for that exit, and yields no line of completion.
C30_ExitCodeReported ==
    run.pc = "done" /\ run.rc # <<>> /\ run.rc[1] # 0 =>
        /\ run.stream[Len(run.stream)].tag = "ERROR"
        /\ run.stream[Len(run.stream)].msg = "exit"
        /\ \A i \in 1..Len(run.stream) :
              run.stream[i].msg \notin {"complete", "scenario_complete"}


\* C22: no line streamed by run_scenario holds the token or the url given
\* to the child in S1_HEC_TOKEN and S1_HEC_URL.
C22_ScenarioNoSecret ==
    Streaming /\ run.q.destination = "scenario" =>
        \A i \in 1..Len(run.stream) :
            /\ ~HasInfix(run.stream[i].text, run.token)
            /\ run.nurl # NoUrl => ~HasInfix(run.stream[i].text, run.nurl)


\* the substrings '{' ... '}' of s with no brace inside, as pairs of
\* positions; two of them never overlap
BraceFreeSpans(s) ==
    {p \in (1..Len(s)) \X (1..Len(s)) :
        /\ p[1] < p[2] /\ s[p[1]] = "{" /\ s[p[2]] = "}"
        /\ \A k \in (p[1] + 1)..(p[2] - 1) : s[k] \notin {"{", "}"}}

\* C25: detect_log_format answers 'JSON' when the text has more than two
\* substrings '{' ... '}' with no brace inside, and 'RAW' when it has none,
\* one or two.
C25_DetectFormat ==
    fmt.pc = "detected" =>
        fmt.out = (IF Cardinality(BraceFreeSpans(fmt.text)) > 2
                   THEN "JSON" ELSE "RAW")

\* C25 witness: a text with three such substrings was answered 'JSON'.
C25_Witness ==
    /\ fmt.pc = "detected" /\ fmt.out = "JSON"
    /\ Cardinality(BraceFreeSpans(fmt.text)) = 3


\* C26: clean_json_logs applied to its own result gives that result.
C26_CleanJsonIdempotent ==
    fmt.pc = "cleaned" => fmt.twice = fmt.once


IsKeptLine(line) == line \in RawKept

\* the lines ls with one newline between each two
RECURSIVE WithNewlines(_)
WithNewlines(ls) ==
    IF Len(ls) = 0 THEN <<>>
    ELSE IF Len(ls) = 1 THEN ls[1]
    ELSE WithNewlines(SubSeq(ls, 1, Len(ls) - 1)) \o <<"\n">> \o ls[Len(ls)]

\* C27: clean_raw_logs returns the lines of the text that match no skip
\* pattern, as they are and in their order, with a newline between each two,
\* and nothing else.
C27_CleanRawKeepsLines ==
    fmt.pc = "cleaned_raw" =>
        fmt.out = WithNewlines(SelectSeq(fmt.lines, IsKeptLine))

\* C27 witness: of three lines the one in the middle matched a skip pattern
\* without its surrounding whitespace and case, and the other two, one of
\* them with whitespace around it, were returned.
C27_Witness ==
    /\ fmt.pc = "cleaned_raw" /\ Len(fmt.lines) = 3
    /\ fmt.lines[1] \in RawKept /\ fmt.lines[3] \in RawKept
    /\ fmt.lines[2] = <<" ", "e", "v", "e", "n", "t", " ", "1", " ">>
    /\ Strip(fmt.lines[1]) # fmt.lines[1]
    /\ fmt.out = fmt.lines[1] \o <<"\n">> \o fmt.lines[3]


\* the generator waits for a line of standard output that the child, blocked
\* in a write to the full pipe of standard error, cannot write
PipesStuck ==
    /\ pipe.pc = "read_stdout" /\ pipe.out = 0
    /\ pipe.child = "running" /\ Len(pipe.prog) > 0
    /\ Head(pipe.prog) = "err" /\ pipe.err = PipeCapacity

\* C28: a run whose child exits when its writes are not blocked ends; the
\* run is never left reading standard output from a child that is blocked
\* writing standard error.
C28_RunEnds == pipe.pc # "idle" => ~PipesStuck

\* C28, as a property of the behaviours under FairSpecPipe: every run ends.
C28_RunEndsEventually == pipe.pc # "idle" ~> pipe.pc = "done"


\* this step starts the child of the run
SpawnsChild ==
    /\ Streaming /\ Streaming'
    /\ run.child = "none" /\ run'.child # "none"

\* this step ends the generator of the run
EndsRun == Streaming /\ run.pc # "done" /\ run'.pc = "done"

\* the destination of the run was found complete, and its socket, if it has
\* one, was created and, over TCP, connected
ReadyToStream ==
    /\ Len(run.stream) = 1 /\ run.stream[1].tag = "INFO"
    /\ IF run.q.destination = "syslog"
       THEN /\ run.pc = "y_start" /\ run.sock = "open"
            /\ run.proto \in {"UDP", "TCP"}
            /\ run.addr[1] \notin {None, NoIp} /\ Truthy(run.addr[2])
            /\ run.proto = "TCP" => run.connected
       ELSE /\ run.q.destination = "hec" /\ run.pc = "y_hstart"
            /\ run.token # NoToken /\ run.url # NoUrl

\* C31: the child of a run is started only after the destination was found
\* complete and, over TCP, after the connect returned; and the generator of
\* a run ends only out of the finally clause, after its line was yielded.
C31_TransportOrder ==
    [][/\ SpawnsChild => ReadyToStream
       /\ EndsRun => /\ run.pc = "y_final"
                     /\ run.stream[Len(run.stream)].msg = "complete"]_vars

\* C31 witness: a run over TCP connected, started its child, forwarded a
\* line and ended out of the finally clause.
C31_Witness ==
    /\ run.pc = "done" /\ run.proto = "TCP" /\ run.connected
    /\ run.child = "reaped" /\ Len(LogLines) = 1
    /\ run.stream[Len(run.stream)].msg = "complete"


\* C32: no two descriptors of the persisted list have the same id.
C32_DistinctIds ==
    \A i, j \in 1..Len(Registry) :
        i # j /\ Has(Registry[i], "id") /\ Has(Registry[j], "id")
        => Registry[i].id # Registry[j].id


\* C33: a create answered 400 or 500 leaves the destinations file and the
\* keyring as they were, and a create that changed one of them is answered
\* with a success.
C33_ErrorChangesNothing ==
    [][ req'.op = "create"
        => /\ resp'.status \in {400, 500} => file' = file /\ keyring' = keyring
           /\ file' # file \/ keyring' # keyring => Is2xx(resp')
      ]_vars


\* thread t has handled a create and answered it with a success
CreatedBy(t) ==
    /\ thr[t].pc = "done" /\ thr[t].r.op = "create" /\ thr[t].status = 201

\* the positions of the descriptors of the payload p in the file
StoredFor(p) == Matching(Registry, p.name, p.type)

\* C34: when two threads have each answered a create with a success, for
\* different (name, type), the file holds a descriptor for each, and the two
\* have different ids.
C34_NoLostUpsert ==
    \A t, u \in DOMAIN thr :
        /\ t # u /\ CreatedBy(t) /\ CreatedBy(u)
        /\ <<thr[t].r.payload.name, thr[t].r.payload.type>>
             # <<thr[u].r.payload.name, thr[u].r.payload.type>>
        => /\ StoredFor(thr[t].r.payload) # {}
           /\ StoredFor(thr[u].r.payload) # {}
           /\ \A i \in StoredFor(thr[t].r.payload),
                 j \in StoredFor(thr[u].r.payload) :
                 Registry[i].id # Registry[j].id


\* the send calls of the run that returned
Returned(c) == c.ok
ReturnedCalls == SelectSeq(run.calls, Returned)

\* C35: at every point of a syslog run there are as many LOG lines in the
\* stream as send calls that returned, the i-th LOG line is the text the
\* i-th of them carried before its newline, and a send call that raised has
\* no LOG line.
C35_LogOnlyAfterSend ==
    Streaming /\ run.q.destination = "syslog" =>
        /\ Len(LogLines) = Len(ReturnedCalls)
        /\ \A i \in 1..Len(LogLines) :
              ReturnedCalls[i].data = LogLines[i].text \o <<"\n">>
        /\ \A i \in 1..Len(run.calls) :
              ~run.calls[i].ok =>
                  /\ Len(LogLines) = i - 1
                  /\ run.stream[Len(LogLines) + 2].tag = "ERROR"

\* C35 witness: the generator is suspended at the ERROR line of a send that
\* raised, after one send that returned: the stream holds one LOG line.
C35_Witness ==
    /\ run.pc = "y_senderr" /\ run.proto = "UDP"
    /\ Len(run.calls) = 2 /\ run.calls[1].ok /\ ~run.calls[2].ok
    /\ Len(LogLines) = 1
    /\ run.calls[1].data = LogLines[1].text \o <<"\n">>


\* C36: once the generator of a syslog run that created a socket was closed
\* by the server, where it was suspended, the socket is closed and the child,
\* if it was started, is not running.
C36_DisconnectCleansUp ==
    run.pc = "abandoned" /\ SocketCreated =>
        /\ run.sock = "closed"
        /\ run.child # "running"


\* the ports of the syslog payloads that are no number of 1..65535: none, 0,
\* 70000, the text '0' and the text 'x'
BadPorts == {PNone, PNum(0), PNum(70000), PStr(<<"0">>), PStr(<<"x">>)}

\* C37: after a syslog create every syslog descriptor on file has a port in
\* 1..65535 and the protocol TCP or UDP, and a create whose port is no number
\* of that range is answered 400 and leaves the file as it was.
C37_PortInRange ==
    [][ req'.op = "create" /\ req'.payload.type = "syslog"
        => /\ \A i \in 1..Len(Load(file')) :
                 Load(file')[i].type = "syslog" =>
                     /\ Load(file')[i].port \in 1..65535
                     /\ Load(file')[i].protocol \in {"TCP", "UDP"}
           /\ req'.payload.port \in BadPorts =>
                 resp'.status = 400 /\ file' = file
      ]_vars

====
